---- MODULE Spec2Model ----
(***************************************************************************)
(* A model of the biosketch extraction engine of src/app/parser:           *)
(*   models.py            the record model and its to_dict / from_dict     *)
(*   citation_parser.py   CitationParser                                   *)
(*   biosketch_parser.py  BiosketchParser                                  *)
(*                                                                         *)
(* A Python str is a sequence of tokens.  A token is a literal chunk of    *)
(* text that is homogeneous for every character class the regular          *)
(* expressions of the source use (a run of letters, a run of digits, one   *)
(* punctuation character, one whitespace character), so every regular     *)
(* expression of the source is decided token by token.  The str a token    *)
(* sequence stands for is the concatenation of its tokens; whitespace is   *)
(* always an explicit " " token.                                           *)
(***************************************************************************)
EXTENDS Integers, Sequences, FiniteSets, TLC

(***************************************************************************)
(* Bounds of the model.                                                    *)
(***************************************************************************)
\* paragraphs of a document
MaxParas == 4
\* paragraphs after the padding of a document of the header runs
MaxHeaderParas == 3
\* paragraphs of a document of the two-parser runs
MaxPairParas == 2
\* data rows of the first table
MaxRows == 2
\* calls of parse() on one parser
MaxPasses == 2
\* field settings and list elements of a BiosketchData value
MaxItems == 3
\* lines of a research-support block
MaxGrantLines == 3
\* lines of the content of a section
MaxSectionLines == 3
\* lines of a text given to split_citations
MaxTextLines == 4

(***************************************************************************)
(* The vocabulary: token |-> <<kind, number of characters, lower-cased>>.  *)
(* Kinds: "ws" whitespace, "up" upper-case letters, "cap" one upper-case   *)
(* letter then lower-case letters, "low" lower-case letters, "mix" letters *)
(* starting lower-case, "dig" digits, "p" one punctuation character.       *)
(***************************************************************************)
Vocab ==
  (" " :> <<"ws", 1, " ">>) @@ ("\n" :> <<"ws", 1, "\n">>) @@
  (":" :> <<"p", 1, ":">>) @@ ("," :> <<"p", 1, ",">>) @@
  ("-" :> <<"p", 1, "-">>) @@ ("/" :> <<"p", 1, "/">>) @@
  ("." :> <<"p", 1, ".">>) @@ ("(" :> <<"p", 1, "(">>) @@
  (")" :> <<"p", 1, ")">>) @@
  ("A" :> <<"up", 1, "a">>) @@ ("B" :> <<"up", 1, "b">>) @@
  ("C" :> <<"up", 1, "c">>) @@ ("AB" :> <<"up", 2, "ab">>) @@
  ("PI" :> <<"up", 2, "pi">>) @@ ("VA" :> <<"up", 2, "va">>) @@
  ("NIH" :> <<"up", 3, "nih">>) @@ ("PMC" :> <<"up", 3, "pmc">>) @@
  ("PMID" :> <<"up", 4, "pmid">>) @@ ("PMCID" :> <<"up", 5, "pmcid">>) @@
  ("NAME" :> <<"up", 4, "name">>) @@ ("COMMONS" :> <<"up", 7, "commons">>) @@
  ("USER" :> <<"up", 4, "user">>) @@ ("POSITION" :> <<"up", 8, "position">>) @@
  ("TITLE" :> <<"up", 5, "title">>) @@ ("HONORS" :> <<"up", 6, "honors">>) @@
  ("Personal" :> <<"cap", 8, "personal">>) @@
  ("Statement" :> <<"cap", 9, "statement">>) @@
  ("Positions" :> <<"cap", 9, "positions">>) @@
  ("Contributions" :> <<"cap", 13, "contributions">>) @@
  ("Science" :> <<"cap", 7, "science">>) @@
  ("Current" :> <<"cap", 7, "current">>) @@
  ("Citations" :> <<"cap", 9, "citations">>) @@
  ("Citation" :> <<"cap", 8, "citation">>) @@
  ("Contribution" :> <<"cap", 12, "contribution">>) @@
  ("Honors" :> <<"cap", 6, "honors">>) @@
  ("Role" :> <<"cap", 4, "role">>) @@
  ("Present" :> <<"cap", 7, "present">>) @@
  ("Smith" :> <<"cap", 5, "smith">>) @@
  ("Parker" :> <<"cap", 6, "parker">>) @@
  ("Various" :> <<"cap", 7, "various">>) @@
  ("Complete" :> <<"cap", 8, "complete">>) @@
  ("List" :> <<"cap", 4, "list">>) @@
  ("Published" :> <<"cap", 9, "published">>) @@
  ("Work" :> <<"cap", 4, "work">>) @@
  ("Foundation" :> <<"cap", 10, "foundation">>) @@
  ("Scientific" :> <<"cap", 10, "scientific">>) @@
  ("Appointments" :> <<"cap", 12, "appointments">>) @@
  ("Professor" :> <<"cap", 9, "professor">>) @@
  ("Fellow" :> <<"cap", 6, "fellow">>) @@
  ("Chicago" :> <<"cap", 7, "chicago">>) @@
  ("Award" :> <<"cap", 5, "award">>) @@
  ("Mechanisms" :> <<"cap", 10, "mechanisms">>) @@
  ("Allocation" :> <<"cap", 10, "allocation">>) @@
  ("to" :> <<"low", 2, "to">>) @@ ("and" :> <<"low", 3, "and">>) @@
  ("recently" :> <<"low", 8, "recently">>) @@
  ("completed" :> <<"low", 9, "completed">>) @@
  ("research" :> <<"low", 8, "research">>) @@
  ("support" :> <<"low", 7, "support">>) @@
  ("of" :> <<"low", 2, "of">>) @@ ("doi" :> <<"low", 3, "doi">>) @@
  ("a" :> <<"low", 1, "a">>) @@ ("improve" :> <<"low", 7, "improve">>) @@
  ("https" :> <<"low", 5, "https">>) @@ ("org" :> <<"low", 3, "org">>) @@
  ("eRA" :> <<"mix", 3, "era">>) @@
  ("1" :> <<"dig", 1, "1">>) @@ ("02" :> <<"dig", 2, "02">>) @@
  ("10" :> <<"dig", 2, "10">>) @@ ("15" :> <<"dig", 2, "15">>) @@
  ("20" :> <<"dig", 2, "20">>) @@ ("25" :> <<"dig", 2, "25">>) @@
  ("91" :> <<"dig", 2, "91">>) @@ ("1502" :> <<"dig", 4, "1502">>) @@
  ("2020" :> <<"dig", 4, "2020">>) @@ ("2025" :> <<"dig", 4, "2025">>) @@
  ("150291" :> <<"dig", 6, "150291">>)

\* a run of more than four digits: <<its first four digits, the rest>>
Head4 == ("150291" :> <<"1502", "91">>)

\* a run of more than two digits: <<all but its last two digits, the last two>>
Tail2 ==
  ("2020" :> <<"20", "20">>) @@ ("2025" :> <<"20", "25">>) @@
  ("1502" :> <<"15", "02">>) @@ ("150291" :> <<"1502", "91">>)

Kind(t) == Vocab[t][1]
TokLen(t) == Vocab[t][2]
Lower(t) == Vocab[t][3]

IsWs(t) == Kind(t) = "ws"
IsLetters(t) == Kind(t) \in {"up", "cap", "low", "mix"}
IsDigits(t) == Kind(t) = "dig"

(***************************************************************************)
(* str helpers: len, strip, ' '.join, slicing.                             *)
(***************************************************************************)
RECURSIVE StrLen(_)
StrLen(s) == IF s = << >> THEN 0 ELSE TokLen(Head(s)) + StrLen(Tail(s))

\* the first index >= i of s that holds no whitespace (Len(s)+1 if none): \s*
SkipWs(s, i) ==
  LET stops == {j \in i..(Len(s) + 1) : j = Len(s) + 1 \/ ~IsWs(s[j])}
  IN  CHOOSE j \in stops : \A k \in stops : j <= k

\* s[i:] in Python terms, i counted from 1
From(s, i) == SubSeq(s, i, Len(s))

RECURSIVE RStrip(_)
RStrip(s) ==
  IF s # << >> /\ IsWs(s[Len(s)]) THEN RStrip(SubSeq(s, 1, Len(s) - 1)) ELSE s

Strip(s) == RStrip(From(s, SkipWs(s, 1)))

RECURSIVE JoinSp(_)
JoinSp(ss) ==
  IF ss = << >> THEN << >>
  ELSE IF Len(ss) = 1 THEN ss[1]
  ELSE ss[1] \o <<" ">> \o JoinSp(Tail(ss))

\* s.startswith(prefix)
StartsWith(s, prefix) ==
  Len(s) >= Len(prefix) /\ SubSeq(s, 1, Len(prefix)) = prefix

\* whether the literal words lit (lower-cased tokens) occur at s[i..], with
\* \s* between any two of them; the index after the match, or 0
RECURSIVE MatchWords(_, _, _)
MatchWords(s, i, lit) ==
  IF lit = << >> THEN i
  ELSE IF i > Len(s) \/ Lower(s[i]) # Head(lit) THEN 0
  ELSE IF Len(lit) = 1 THEN i + 1
  ELSE MatchWords(s, SkipWs(s, i + 1), Tail(lit))

(***************************************************************************)
(* models.py.  A dataclass instance is a record tagged with its class in   *)
(* field cls; a dict is a function from keys to values (no cls).  An       *)
(* Optional value is << >> for None and <<x>> for the value x.             *)
(***************************************************************************)
None == << >>
Some(x) == <<x>>

Citation(text, pmid, pmcid, doi) ==
  [cls |-> "Citation", text |-> text, pmid |-> pmid, pmcid |-> pmcid, doi |-> doi]

Education(institution, degree, completion_date, field_of_study) ==
  [cls |-> "Education", institution |-> institution, degree |-> degree,
   completion_date |-> completion_date, field_of_study |-> field_of_study]

Position(dates, title, institution) ==
  [cls |-> "Position", dates |-> dates, title |-> title, institution |-> institution]

Honor(year, description) ==
  [cls |-> "Honor", year |-> year, description |-> description]

Grant(funder, number, pi, dates, title, role) ==
  [cls |-> "Grant", funder |-> funder, number |-> number, pi |-> pi,
   dates |-> dates, title |-> title, role |-> role]

\* Grant(): every field defaults to ""
GrantDefault == Grant(<< >>, << >>, << >>, << >>, << >>, << >>)

PersonalStatement(text, grants, citations) ==
  [cls |-> "PersonalStatement", text |-> text, grants |-> grants, citations |-> citations]

Contribution(narrative, citations) ==
  [cls |-> "Contribution", narrative |-> narrative, citations |-> citations]

BiosketchData(name, era, title, education, ps, positions, honors, contributions) ==
  [cls |-> "BiosketchData", name |-> name, era_commons_username |-> era,
   position_title |-> title, education |-> education, personal_statement |-> ps,
   positions |-> positions, honors |-> honors, contributions |-> contributions]

\* BiosketchData(): empty strings, empty lists (one fresh list per instance), None
BiosketchDataDefault ==
  BiosketchData(<< >>, << >>, << >>, << >>, None, << >>, << >>, << >>)


(***************************************************************************)
(* to_dict / from_dict of models.py.                                       *)
(***************************************************************************)
\* d.get(key, default)
Get(d, key, default) == IF key \in DOMAIN d THEN d[key] ELSE default

\* [f(x) for x in xs]
Map(F(_), xs) == [i \in 1..Len(xs) |-> F(xs[i])]

\* cls(**data) of a dataclass whose optional parameters have the given defaults
Construct(cls, data, defaults) == [cls |-> cls] @@ data @@ defaults

\* the truth value of an Optional dataclass instance (no __bool__, no __len__)
ObjTruthy(o) == o # None

\* an Optional dict taken for absent when its statement text is empty
DictTruthyEmptyText(o) == o # None /\ o[1].text # << >>

\* the truth value of an Optional dict: None and {} are false
DictTruthy(o) == o # None /\ DOMAIN o[1] # {}

CitationToDict(c) ==
  [text |-> c.text, pmid |-> c.pmid, pmcid |-> c.pmcid, doi |-> c.doi]

CitationFromDict(d) ==
  Construct("Citation", d, [pmid |-> None, pmcid |-> None, doi |-> None])

EducationToDict(e) ==
  [institution |-> e.institution, degree |-> e.degree,
   completion_date |-> e.completion_date, field_of_study |-> e.field_of_study]

EducationFromDict(d) == Construct("Education", d, << >>)

PositionToDict(p) == [dates |-> p.dates, title |-> p.title, institution |-> p.institution]

PositionFromDict(d) == Construct("Position", d, << >>)

HonorToDict(h) == [year |-> h.year, description |-> h.description]

HonorFromDict(d) == Construct("Honor", d, << >>)

GrantToDict(g) ==
  [funder |-> g.funder, number |-> g.number, pi |-> g.pi, dates |-> g.dates,
   title |-> g.title, role |-> g.role]

GrantFromDict(d) ==
  Construct("Grant", d, [funder |-> << >>, number |-> << >>, pi |-> << >>,
                         dates |-> << >>, title |-> << >>, role |-> << >>])

PersonalStatementToDict(ps) ==
  [text |-> ps.text, grants |-> Map(GrantToDict, ps.grants),
   citations |-> Map(CitationToDict, ps.citations)]

PersonalStatementFromDict(d) ==
  PersonalStatement(d.text, Map(GrantFromDict, Get(d, "grants", << >>)),
                    Map(CitationFromDict, Get(d, "citations", << >>)))

ContributionToDict(c) ==
  [narrative |-> c.narrative, citations |-> Map(CitationToDict, c.citations)]

ContributionFromDict(d) ==
  Contribution(d.narrative, Map(CitationFromDict, Get(d, "citations", << >>)))

BiosketchToDict(v) ==
  [name |-> v.name, era_commons_username |-> v.era_commons_username,
   position_title |-> v.position_title,
   education |-> Map(EducationToDict, v.education),
   personal_statement |->
     IF ObjTruthy(v.personal_statement)
     THEN Some(PersonalStatementToDict(v.personal_statement[1])) ELSE None,
   positions |-> Map(PositionToDict, v.positions),
   honors |-> Map(HonorToDict, v.honors),
   contributions |-> Map(ContributionToDict, v.contributions)]

BiosketchFromDict(d) ==
  LET personal_statement ==
        IF DictTruthy(Get(d, "personal_statement", None))
        THEN Some(PersonalStatementFromDict(d.personal_statement[1])) ELSE None
  IN  BiosketchData(Get(d, "name", << >>), Get(d, "era_commons_username", << >>),
                    Get(d, "position_title", << >>),
                    Map(EducationFromDict, Get(d, "education", << >>)),
                    personal_statement,
                    Map(PositionFromDict, Get(d, "positions", << >>)),
                    Map(HonorFromDict, Get(d, "honors", << >>)),
                    Map(ContributionFromDict, Get(d, "contributions", << >>)))

(***************************************************************************)
(* citation_parser.py: CitationParser.                                     *)
(***************************************************************************)
\* the least element of a set of indices, 0 when the set is empty
MinOr0(S) == IF S = {} THEN 0 ELSE CHOOSE i \in S : \A k \in S : i <= k

\* the index after the run of tokens satisfying P that starts at s[i]
RECURSIVE RunEnd(_, _, _)
RunEnd(P(_), s, i) == IF i <= Len(s) /\ P(s[i]) THEN RunEnd(P, s, i + 1) ELSE i

\* the literal lit (lower-cased tokens, no whitespace allowed between them) at s[i..]
LitAt(s, i, lit) ==
  /\ i + Len(lit) - 1 <= Len(s)
  /\ \A k \in 1..Len(lit) : Lower(s[i + k - 1]) = lit[k]

\* PMID_PATTERN = PMID:\s*(\d+), ignoring case, at s[i..]: the digits start
PmidAt(s, i) ==
  LET j == SkipWs(s, i + 2)
  IN  IF LitAt(s, i, <<"pmid", ":">>) /\ j <= Len(s) /\ IsDigits(s[j]) THEN j ELSE 0

\* PMCID_PATTERN = PMCID:\s*(PMC\d+), ignoring case, at s[i..]: where PMC starts
PmcidAt(s, i) ==
  LET j == SkipWs(s, i + 2)
  IN  IF /\ LitAt(s, i, <<"pmcid", ":">>)
         /\ j + 1 <= Len(s) /\ Lower(s[j]) = "pmc" /\ IsDigits(s[j + 1])
      THEN j ELSE 0

\* 10\.\d{4,}/[^\s]+ at s[j..]
DoiBodyAt(s, j) ==
  /\ j + 4 <= Len(s)
  /\ s[j] = "10" /\ s[j + 1] = "."
  /\ IsDigits(s[j + 2]) /\ TokLen(s[j + 2]) >= 4
  /\ s[j + 3] = "/"
  /\ ~IsWs(s[j + 4])

\* DOI_PATTERN = (?:doi:\s*|https?://doi\.org/)(10\.\d{4,}/[^\s]+) at s[i..]:
\* where the DOI starts
DoiAt(s, i) ==
  LET j == SkipWs(s, i + 2)
  IN  IF LitAt(s, i, <<"doi", ":">>) /\ DoiBodyAt(s, j) THEN j
      ELSE IF /\ LitAt(s, i, <<"https", ":", "/", "/", "doi", ".", "org", "/">>)
              /\ DoiBodyAt(s, i + 8)
      THEN i + 8 ELSE 0

\* pattern.search(text): the group of the leftmost match, None without a match
SearchGroup(At(_, _), GroupEnd(_, _), text) ==
  LET i == MinOr0({k \in 1..Len(text) : At(text, k) # 0})
  IN  IF i = 0 THEN None
      ELSE Some(SubSeq(text, At(text, i), GroupEnd(text, At(text, i)) - 1))

NotWs(t) == ~IsWs(t)

DigitsEnd(s, j) == RunEnd(IsDigits, s, j)
PmcEnd(s, j) == RunEnd(IsDigits, s, j + 1)
NonWsEnd(s, j) == RunEnd(NotWs, s, j)

\* a PMID looked for only in a text without a PMCID
ExtractPmidWithoutPmcid(text) ==
  IF SearchGroup(PmcidAt, PmcEnd, text) # None THEN None
  ELSE SearchGroup(PmidAt, DigitsEnd, text)

extract_pmid(text) == SearchGroup(PmidAt, DigitsEnd, text)

extract_pmcid(text) == SearchGroup(PmcidAt, PmcEnd, text)

extract_doi(text) == SearchGroup(DoiAt, NonWsEnd, text)

parse_citation(text) ==
  LET t == Strip(text)
  IN  Citation(t, extract_pmid(t), extract_pmcid(t), extract_doi(t))

\* ^(?:\d+\.|[a-z]\.)\s* (case-sensitive) at the start of s: the index after
\* the match, 0 without a match
NumberedEnd(s) ==
  IF /\ Len(s) >= 2
     /\ s[2] = "."
     /\ \/ IsDigits(s[1])
        \/ Kind(s[1]) = "low" /\ TokLen(s[1]) = 1
  THEN SkipWs(s, 3) ELSE 0

\* ^[A-Z][a-z]+\s+[A-Z]{1,2}[\s,] (case-sensitive) at s[i..]
AuthorLikeAt(s, i) ==
  LET j == SkipWs(s, i + 1)
  IN  /\ i <= Len(s) /\ Kind(s[i]) = "cap"
      /\ j > i + 1
      /\ j + 1 <= Len(s)
      /\ Kind(s[j]) = "up" /\ TokLen(s[j]) <= 2
      /\ (IsWs(s[j + 1]) \/ s[j + 1] = ",")

is_citation_line(line) ==
  LET text == Strip(line)
  IN  IF text = << >> THEN FALSE
      ELSE IF \/ extract_pmid(text) # None
              \/ extract_pmcid(text) # None
              \/ extract_doi(text) # None
      THEN TRUE
      ELSE NumberedEnd(text) # 0 /\ AuthorLikeAt(text, NumberedEnd(text))

\* text.split('\n')
RECURSIVE SplitNl(_)
SplitNl(s) ==
  LET n == MinOr0({k \in 1..Len(s) : s[k] = "\n"})
  IN  IF n = 0 THEN <<s>>
      ELSE <<SubSeq(s, 1, n - 1)>> \o SplitNl(From(s, n + 1))

\* ^(?:\d+\.|[a-z]\.)\s+ (case-sensitive) on a stripped line
NewCitationMarker(line) ==
  /\ Len(line) >= 3
  /\ \/ IsDigits(line[1])
     \/ Kind(line[1]) = "low" /\ TokLen(line[1]) = 1
  /\ line[2] = "."
  /\ IsWs(line[3])

\* the citation flushed from the buffer (lines 93-95, 100-101 and 108-109)
FlushCitation(st) ==
  IF st.current_citation # << >>
  THEN Append(st.citations, JoinSp(st.current_citation))
  ELSE st.citations

\* an iteration in which a blank line is passed over, the buffer kept
SplitStepBlankSkipped(st, raw) ==
  LET line == Strip(raw)
  IN  IF line = << >> THEN st
      ELSE IF NewCitationMarker(line)
      THEN [citations |-> FlushCitation(st), current_citation |-> <<line>>]
      ELSE [st EXCEPT !.current_citation = Append(@, line)]

\* one iteration of the loop of split_citations on the state
\* st = [citations, current_citation]
SplitStep(st, raw) ==
  LET line == Strip(raw)
  IN  IF line = << >>
      THEN [citations |-> FlushCitation(st), current_citation |-> << >>]
      ELSE IF NewCitationMarker(line)
      THEN [citations |-> FlushCitation(st), current_citation |-> <<line>>]
      ELSE [st EXCEPT !.current_citation = Append(@, line)]

\* citations = [] and current_citation = [] (lines 87-88)
SplitInit == [citations |-> << >>, current_citation |-> << >>]

RECURSIVE SplitLoop(_, _)
SplitLoop(st, lines) ==
  IF lines = << >> THEN st ELSE SplitLoop(SplitStep(st, Head(lines)), Tail(lines))

split_citations(text) == FlushCitation(SplitLoop(SplitInit, SplitNl(Strip(text))))

\* [cls.parse_citation(ct) for ct in citation_texts if ct.strip()]
RECURSIVE CitationsOfTexts(_)
CitationsOfTexts(texts) ==
  IF texts = << >> THEN << >>
  ELSE (IF Strip(Head(texts)) # << >> THEN <<parse_citation(Head(texts))>> ELSE << >>)
       \o CitationsOfTexts(Tail(texts))

parse_citation_block(text) == CitationsOfTexts(split_citations(text))

(***************************************************************************)
(* biosketch_parser.py: the Grant Recognizer, _parse_grants and            *)
(* _parse_grant_line.  The en dash of [-–] is a second spelling of "-"     *)
(* and is not in the vocabulary.                                           *)
(***************************************************************************)
FunderLits == {"nih", "nsf", "dod", "va", "cdc", "greenwall", "ahrq", "pcori"}

\* the tokens whose text starts, ignoring case, with a word of FunderLits
FunderPrefixToks == {"NIH", "VA", "Various"}

\* [A-Za-z,\s]
PiCls(t) == IsLetters(t) \/ IsWs(t) \/ t = ","

\* [A-Z0-9\-\s], ignoring case
NumCls(t) == IsLetters(t) \/ IsDigits(t) \/ IsWs(t) \/ t = "-"

\* [:\s]
SepCls(t) == IsWs(t) \/ t = ":"

AllIn(P(_), s, i, j) == \A k \in i..j : P(s[k])

\* \(([^)]+)\) with its "(" at s[e]: the index of the closing ")", 0 if none
CloseIdx(s, e) ==
  LET f == MinOr0({k \in (e + 1)..Len(s) : s[k] = ")"})
  IN  IF f >= e + 2 THEN f ELSE 0

\* \d{1,4} at the end of a pattern, on the digit run t: <<digits taken, digits left>>
TakeUpTo4(t) == IF TokLen(t) <= 4 THEN <<t>> ELSE Head4[t]

\* \s*[-–]\s*\d{1,2}/\d{1,4} at s[k..]: whether it matches, the text matched and
\* the text after the match
DateTail(s, k) ==
  LET j1 == SkipWs(s, k)
      j2 == SkipWs(s, j1 + 1)
      ok == /\ j1 <= Len(s) /\ s[j1] = "-"
            /\ j2 + 2 <= Len(s)
            /\ IsDigits(s[j2]) /\ TokLen(s[j2]) <= 2
            /\ s[j2 + 1] = "/"
            /\ IsDigits(s[j2 + 2])
  IN  IF ~ok THEN [ok |-> FALSE, text |-> << >>, rest |-> << >>]
      ELSE [ok |-> TRUE,
            text |-> SubSeq(s, k, j2 + 1) \o <<TakeUpTo4(s[j2 + 2])[1]>>,
            rest |-> Tail(TakeUpTo4(s[j2 + 2])) \o From(s, j2 + 3)]

\* \d{1,2}/\d{1,4} followed by DateTail, starting at the run s[i] (at its
\* last two digits when the run is longer)
DateFrom(s, i) ==
  IF /\ i + 2 <= Len(s)
     /\ IsDigits(s[i])
     /\ s[i + 1] = "/"
     /\ IsDigits(s[i + 2]) /\ TokLen(s[i + 2]) <= 4
  THEN DateTail(s, i + 3)
  ELSE [ok |-> FALSE, text |-> << >>, rest |-> << >>]

\* the optional group 5 of grant_header_pattern, anchored at the run start s[g]:
\* \d{1,2}/\d{1,4}\s*[-–]\s*\d{1,2}/\d{1,4} | \d{4}\s*[-–]\s*\d{4}
HeaderDates(s, g) ==
  LET j1 == SkipWs(s, g + 1)
      j2 == SkipWs(s, j1 + 1)
  IN  IF g <= Len(s) /\ IsDigits(s[g]) /\ TokLen(s[g]) <= 2 /\ DateFrom(s, g).ok
      THEN Some(SubSeq(s, g, g + 2) \o DateFrom(s, g).text)
      ELSE IF /\ g <= Len(s) /\ IsDigits(s[g]) /\ TokLen(s[g]) = 4
              /\ j1 <= Len(s) /\ s[j1] = "-"
              /\ j2 <= Len(s) /\ IsDigits(s[j2]) /\ TokLen(s[j2]) >= 4
      THEN Some(SubSeq(s, g, j2 - 1) \o <<TakeUpTo4(s[j2])[1]>>)
      ELSE None

\* the funder alternatives of grant_header_pattern at the start of s, in the
\* order the pattern tries them: the index after each funder that matches
HeaderFunderEnds(s) ==
  LET k == SkipWs(s, 2)
  IN  (IF s # << >> /\ Lower(s[1]) \in FunderLits THEN <<2>> ELSE << >>)
      \o (IF /\ s # << >> /\ IsLetters(s[1]) /\ TokLen(s[1]) >= 2
             /\ k > 2 /\ k <= Len(s) /\ Lower(s[k]) = "foundation"
          THEN <<k + 1>> ELSE << >>)

\* the ways the rest of grant_header_pattern matches after a funder ending
\* before s[e1]: <<a, b, c, d>>, separator s[e1..a-1], number s[a..b-1],
\* whitespace s[b..c-1], PI s[c..d-1], then \s*\( ... \)
HeaderSplits(s, e1) ==
  LET n == Len(s)
  IN  UNION {UNION {UNION {
        {<<a, b, c, d>> : d \in {x \in (c + 1)..(n + 1) :
            /\ AllIn(PiCls, s, c, x - 1)
            /\ SkipWs(s, x) <= n
            /\ s[SkipWs(s, x)] = "("
            /\ CloseIdx(s, SkipWs(s, x)) # 0}}
        : c \in {x \in (b + 1)..(n + 1) : AllIn(IsWs, s, b, x - 1)}}
        : b \in {x \in (a + 1)..(n + 1) : AllIn(NumCls, s, a, x - 1)}}
        : a \in {x \in (e1 + 1)..(n + 1) : AllIn(SepCls, s, e1, x - 1)}}

\* the split the backtracking matcher finds first: separator greedy, number
\* lazy, whitespace greedy, PI lazy
FirstSplit(S) ==
  CHOOSE t \in S : \A u \in S :
    \/ t[1] > u[1]
    \/ t[1] = u[1] /\ t[2] < u[2]
    \/ t[1] = u[1] /\ t[2] = u[2] /\ t[3] > u[3]
    \/ t[1] = u[1] /\ t[2] = u[2] /\ t[3] = u[3] /\ t[4] <= u[4]

\* grant_header_pattern.match(line): None, or <<e1, a, b, c, d>> for the first
\* funder alternative that lets the rest match and its first split
HeaderMatch(s) ==
  LET ends == HeaderFunderEnds(s)
      good == {i \in 1..Len(ends) : HeaderSplits(s, ends[i]) # {}}
  IN  IF good = {} THEN None
      ELSE Some(<<ends[MinOr0(good)]>>
                \o FirstSplit(HeaderSplits(s, ends[MinOr0(good)])))

\* group.strip() if group else default
StripOr(group, default) == IF group # << >> THEN Strip(group) ELSE default

\* the Grant built from the groups of a header match m whose "(" is s[e] and
\* whose ")" is s[f] (lines 256-262)
HeaderGroups(s, m, e, f) ==
  LET g5 == HeaderDates(s, SkipWs(s, f + 1))
  IN  Grant(Strip(SubSeq(s, 1, m[1] - 1)),
            StripOr(SubSeq(s, m[2], m[3] - 1), << >>),
            StripOr(SubSeq(s, m[4], m[5] - 1), << >>),
            IF g5 # None THEN Strip(g5[1]) ELSE << >>,
            << >>,
            StripOr(SubSeq(s, e + 1, f - 1), <<"PI">>))

GrantOfMatch(s, hm) ==
  IF hm = None THEN None
  ELSE Some(HeaderGroups(s, hm[1], SkipWs(s, hm[1][5]),
                         CloseIdx(s, SkipWs(s, hm[1][5]))))

\* grant_header_pattern.match(line): None, or the Grant built from its groups
GrantFromHeader(s) == GrantOfMatch(s, HeaderMatch(s))

\* simple_grant_pattern.match(line)
SimpleGrantMatch(s) == s # << >> /\ s[1] \in FunderPrefixToks

\* date_pattern.search(line) of _parse_grant_line: the first run the date starts in
DateSearch(s) == MinOr0({i \in 1..Len(s) : DateFrom(s, i).ok})

\* pi_pattern.search(line): ([A-Za-z,\s]+)\s*\(([^)]+)\): the index of the "("
\* of the leftmost match, 0 without a match
PiSearch(s) ==
  MinOr0({e \in 2..Len(s) : s[e] = "(" /\ PiCls(s[e - 1]) /\ CloseIdx(s, e) # 0})

\* the start of the [A-Za-z,\s] run that ends before s[e]
RECURSIVE PiRunStart(_, _)
PiRunStart(s, e) == IF e > 1 /\ PiCls(s[e - 1]) THEN PiRunStart(s, e - 1) ELSE e

\* line.strip().split(None, 1)
SplitFirstWs(line) ==
  LET s == Strip(line)
      e == RunEnd(NotWs, s, 1)
  IN  IF s = << >> THEN << >>
      ELSE IF e > Len(s) THEN <<s>>
      ELSE <<SubSeq(s, 1, e - 1), From(s, SkipWs(s, e))>>

\* lines 296-300: <<grant.dates, the line without the date match>>
CutDates(line0, di) ==
  LET dm == DateFrom(line0, di)
      cut == TokLen(line0[di]) > 2
  IN  IF di = 0 THEN <<<< >>, line0>>
      ELSE <<Strip(<<IF cut THEN Tail2[line0[di]][2] ELSE line0[di]>>
                   \o SubSeq(line0, di + 1, di + 2) \o dm.text),
             SubSeq(line0, 1, di - 1)
             \o (IF cut THEN <<Tail2[line0[di]][1]>> ELSE << >>)
             \o dm.rest>>

\* lines 303-308: <<grant.pi, grant.role, the line without the PI match>>,
\* the "(" of the match at line1[e]
CutPi(line1, e) ==
  LET st == PiRunStart(line1, e)
      f == CloseIdx(line1, e)
  IN  IF e = 0 THEN <<<< >>, << >>, line1>>
      ELSE <<Strip(SubSeq(line1, st, e - 1)),
             Strip(SubSeq(line1, e + 1, f - 1)),
             SubSeq(line1, 1, st - 1) \o From(line1, f + 1)>>

\* lines 311-316: funder and number from parts = line.strip().split(None, 1)
GrantOfParts(parts, pi, dates, role) ==
  Grant(IF parts # << >> THEN Strip(parts[1]) ELSE << >>,
        IF Len(parts) > 1 THEN Strip(parts[2]) ELSE << >>,
        pi, dates, << >>, role)

GrantLineAfterPi(dates, c) == GrantOfParts(SplitFirstWs(c[3]), c[1], dates, c[2])

GrantLineAfterDates(d) == GrantLineAfterPi(d[1], CutPi(d[2], PiSearch(d[2])))

_parse_grant_line(line0) == GrantLineAfterDates(CutDates(line0, DateSearch(line0)))

\* ^Role:\s*(.+)$, ignoring case: group 1, None without a match
RoleMatch(s) ==
  IF LitAt(s, 1, <<"role", ":">>) /\ SkipWs(s, 3) <= Len(s)
  THEN Some(From(s, SkipWs(s, 3))) ELSE None

\* one iteration of the while loop of _parse_grants on the state
\* st = [grants, current_grant (Optional)], line the stripped line, role_match
\* and header the results of the two matches on it
GrantStepOn(st, line, role_match, header) ==
  LET cur == st.current_grant
      saved == IF cur # None THEN Append(st.grants, cur[1]) ELSE st.grants
  IN  IF line = << >> THEN st
      ELSE IF role_match # None /\ cur # None
      THEN [st EXCEPT !.current_grant[1].role = Strip(role_match[1])]
      ELSE IF header # None
      THEN [grants |-> saved, current_grant |-> header]
      ELSE IF SimpleGrantMatch(line)
      THEN [grants |-> saved, current_grant |-> Some(_parse_grant_line(line))]
      ELSE IF cur # None /\ cur[1].title = << >>
      THEN [st EXCEPT !.current_grant[1].title = line]
      ELSE IF cur # None
      THEN [st EXCEPT !.current_grant[1].title = @ \o <<" ">> \o line]
      ELSE st

GrantStep(st, raw) ==
  GrantStepOn(st, Strip(raw), RoleMatch(Strip(raw)), GrantFromHeader(Strip(raw)))

\* grants = [] and current_grant = None (lines 212-213)
GrantInit == [grants |-> << >>, current_grant |-> None]

RECURSIVE GrantLoop(_, _)
GrantLoop(st, lines) ==
  IF lines = << >> THEN st ELSE GrantLoop(GrantStep(st, Head(lines)), Tail(lines))

\* lines 287-290: the last grant is appended
GrantsOf(st) ==
  IF st.current_grant # None THEN Append(st.grants, st.current_grant[1]) ELSE st.grants

_parse_grants(lines) == GrantsOf(GrantLoop(GrantInit, lines))

(***************************************************************************)
(* biosketch_parser.py: the three section parsers.                         *)
(***************************************************************************)
\* whether s[i..] is whitespace only: \s*$
WsToEnd(s, i) == SkipWs(s, i) > Len(s)

\* ^Current\s*(and\s*recently\s*completed)?\s*research\s*support, ignoring case
ResearchSupportHeader(s) ==
  \/ MatchWords(s, 1, <<"current", "and", "recently", "completed", "research",
                        "support">>) # 0
  \/ MatchWords(s, 1, <<"current", "research", "support">>) # 0

\* ^Citations?:?\s*$, ignoring case
CitationsHeader(s) ==
  /\ s # << >>
  /\ Lower(s[1]) \in {"citations", "citation"}
  /\ \/ WsToEnd(s, 2)
     \/ Len(s) >= 2 /\ s[2] = ":" /\ WsToEnd(s, 3)

\* an iteration in which a research support header leaves in_citations as it is
SectionAStepStaysInCitations(st, line) ==
  IF ResearchSupportHeader(line)
  THEN [st EXCEPT !.in_research_support = TRUE]
  ELSE IF CitationsHeader(line)
  THEN [st EXCEPT !.in_research_support = FALSE, !.in_citations = TRUE]
  ELSE IF st.in_citations
  THEN [st EXCEPT !.citations = Append(@, parse_citation(line))]
  ELSE IF st.in_research_support
  THEN [st EXCEPT !.grant_lines = Append(@, line)]
  ELSE [st EXCEPT !.personal_text = Append(@, line)]

\* one iteration of the loop of _parse_section_a on the state
\* st = [personal_text, grant_lines, citations, in_research_support, in_citations]
SectionAStep(st, line) ==
  IF ResearchSupportHeader(line)
  THEN [st EXCEPT !.in_research_support = TRUE, !.in_citations = FALSE]
  ELSE IF CitationsHeader(line)
  THEN [st EXCEPT !.in_research_support = FALSE, !.in_citations = TRUE]
  ELSE IF st.in_citations
  THEN [st EXCEPT !.citations = Append(@, parse_citation(line))]
  ELSE IF st.in_research_support
  THEN [st EXCEPT !.grant_lines = Append(@, line)]
  ELSE [st EXCEPT !.personal_text = Append(@, line)]

RECURSIVE SectionALoop(_, _)
SectionALoop(st, content) ==
  IF content = << >> THEN st
  ELSE SectionALoop(SectionAStep(st, Head(content)), Tail(content))

\* a PersonalStatement whose text is the first line of the narrative only
StatementOfFirstLine(st) ==
  PersonalStatement(IF st.personal_text = << >> THEN << >> ELSE st.personal_text[1],
                    _parse_grants(st.grant_lines), st.citations)

\* lines 188-194: the PersonalStatement built from the loop's final state
StatementOf(st) ==
  PersonalStatement(JoinSp(st.personal_text), _parse_grants(st.grant_lines),
                    st.citations)

\* lines 156-161: the three buffers and the two mode flags
SectionAInit ==
  [personal_text |-> << >>, grant_lines |-> << >>, citations |-> << >>,
   in_research_support |-> FALSE, in_citations |-> FALSE]

\* the PersonalStatement _parse_section_a assigns to self.data.personal_statement
_parse_section_a(content) == StatementOf(SectionALoop(SectionAInit, content))

\* ^Honors?\s*$, ignoring case
HonorsHeader(s) ==
  s # << >> /\ Lower(s[1]) \in {"honors", "honor"} /\ WsToEnd(s, 2)

\* ^Positions?\s*(and\s*Scientific\s*Appointments?)?\s*$, ignoring case
PositionsHeader(s) ==
  /\ s # << >>
  /\ Lower(s[1]) \in {"positions", "position"}
  /\ \/ WsToEnd(s, 2)
     \/ \E last \in {"appointments", "appointment"} :
          LET e == MatchWords(s, SkipWs(s, 2), <<"and", "scientific", last>>)
          IN  e # 0 /\ WsToEnd(s, e)

\* \s+(.+)$ at s[i..]: group (.+) stripped, None without a match.  When only
\* whitespace follows, \s+ gives its last character back to (.+).
RestAfterWs(s, i) ==
  IF i > Len(s) \/ ~IsWs(s[i]) THEN None
  ELSE IF SkipWs(s, i) <= Len(s) THEN Some(Strip(From(s, SkipWs(s, i))))
  ELSE IF Len(s) > i THEN Some(<< >>)
  ELSE None

\* ^(\d+)\s+(.+)$: a year of any number of digits
HonorMatchAnyYear(s) ==
  IF s # << >> /\ IsDigits(s[1]) /\ RestAfterWs(s, 2) # None
  THEN Some(Honor(<<s[1]>>, RestAfterWs(s, 2)[1])) ELSE None

\* ^(\d{4})\s+(.+)$: the Honor of the line, None without a match
HonorMatch(s) ==
  IF /\ s # << >> /\ IsDigits(s[1]) /\ TokLen(s[1]) = 4
     /\ RestAfterWs(s, 2) # None
  THEN Some(Honor(<<s[1]>>, RestAfterWs(s, 2)[1])) ELSE None

\* the index of the first "," of s, 0 if none: a split at the first comma
FirstComma(s) == MinOr0({k \in 1..Len(s) : s[k] = ","})

\* the index of the last "," of s, 0 if none
LastComma(s) ==
  LET C == {k \in 1..Len(s) : s[k] = ","}
  IN  IF C = {} THEN 0 ELSE CHOOSE k \in C : \A j \in C : j <= k

\* a match whose remainder is not split: the title is the whole remainder
PositionMatchUnsplit(s) ==
  IF /\ Len(s) >= 3
     /\ IsDigits(s[1]) /\ TokLen(s[1]) = 4
     /\ s[2] = "-"
     /\ \/ IsDigits(s[3]) /\ TokLen(s[3]) = 4
        \/ Lower(s[3]) = "present"
     /\ RestAfterWs(s, 4) # None
  THEN Some(Position(SubSeq(s, 1, 3), RestAfterWs(s, 4)[1], << >>))
  ELSE None

\* ^(\d{4}[-–]\d{4}|\d{4}[-–]Present)\s+(.+)$, ignoring case: the Position of
\* the line (lines 351-369), None without a match
PositionMatch(s) ==
  IF /\ Len(s) >= 3
     /\ IsDigits(s[1]) /\ TokLen(s[1]) = 4
     /\ s[2] = "-"
     /\ \/ IsDigits(s[3]) /\ TokLen(s[3]) = 4
        \/ Lower(s[3]) = "present"
     /\ RestAfterWs(s, 4) # None
  THEN LET rest == RestAfterWs(s, 4)[1]
           c == LastComma(rest)
       IN  Some(IF c # 0
                THEN Position(SubSeq(s, 1, 3), Strip(SubSeq(rest, 1, c - 1)),
                              Strip(From(rest, c + 1)))
                ELSE Position(SubSeq(s, 1, 3), rest, << >>))
  ELSE None

\* an iteration in which a Positions sub-header goes back to positions mode
SectionBStepPositionsResets(st, line) ==
  IF HonorsHeader(line)
  THEN [st EXCEPT !.in_positions = FALSE, !.in_honors = TRUE]
  ELSE IF PositionsHeader(line)
  THEN [st EXCEPT !.in_positions = TRUE, !.in_honors = FALSE]
  ELSE IF st.in_honors
  THEN IF HonorMatch(line) # None
       THEN [st EXCEPT !.honors = Append(@, HonorMatch(line)[1])] ELSE st
  ELSE IF st.in_positions /\ PositionMatch(line) # None
  THEN [st EXCEPT !.positions = Append(@, PositionMatch(line)[1])]
  ELSE st

\* one iteration of the loop of _parse_section_b on the state
\* st = [positions, honors, in_positions, in_honors]; positions and honors are
\* the lists of self.data
SectionBStep(st, line) ==
  IF HonorsHeader(line)
  THEN [st EXCEPT !.in_positions = FALSE, !.in_honors = TRUE]
  ELSE IF PositionsHeader(line) THEN st
  ELSE IF st.in_honors
  THEN IF HonorMatch(line) # None
       THEN [st EXCEPT !.honors = Append(@, HonorMatch(line)[1])] ELSE st
  ELSE IF st.in_positions /\ PositionMatch(line) # None
  THEN [st EXCEPT !.positions = Append(@, PositionMatch(line)[1])]
  ELSE st

RECURSIVE SectionBLoop(_, _)
SectionBLoop(st, content) ==
  IF content = << >> THEN st
  ELSE SectionBLoop(SectionBStep(st, Head(content)), Tail(content))

\* a section B that starts from empty lists
SectionBInitFresh(data) ==
  [positions |-> << >>, honors |-> << >>, in_positions |-> TRUE, in_honors |-> FALSE]

\* lines 322-323: positions mode, over the lists of self.data
SectionBInit(data) ==
  [positions |-> data.positions, honors |-> data.honors,
   in_positions |-> TRUE, in_honors |-> FALSE]

\* self.data holding the lists of the loop's final state
WithLists(data, st) == [data EXCEPT !.positions = st.positions, !.honors = st.honors]

\* self.data after _parse_section_b(content), for self.data = data before it
_parse_section_b(data, content) ==
  WithLists(data, SectionBLoop(SectionBInit(data), content))

CompleteList ==
  <<"Complete", " ", "List", " ", "of", " ", "Published", " ", "Work">>

\* 'Complete List of Published Work' in line
HasCompleteList(s) ==
  \E k \in 1..Len(s) :
    /\ k + Len(CompleteList) - 1 <= Len(s)
    /\ SubSeq(s, k, k + Len(CompleteList) - 1) = CompleteList

StartsUpper(t) == Kind(t) \in {"up", "cap"}

\* contribution_header = ^(\d+\.?\s+)?[A-Z] (case-sensitive)
ContributionHeader(s) ==
  /\ s # << >>
  /\ \/ StartsUpper(s[1])
     \/ /\ IsDigits(s[1])
        /\ LET i == IF Len(s) >= 2 /\ s[2] = "." THEN 3 ELSE 2
               j == SkipWs(s, i)
           IN  j > i /\ j <= Len(s) /\ StartsUpper(s[j])

MinContributionLen == 20

\* no line starts a new contribution
NeverNewContribution(line) == FALSE

\* a new-contribution test that does not look at the citation classification
NewContributionIgnoringCitation(line) ==
  /\ ContributionHeader(line)
  /\ StrLen(line) > MinContributionLen
  /\ ~StartsWith(line, <<"Role", ":">>)

is_new_contribution(line) ==
  /\ ContributionHeader(line)
  /\ ~is_citation_line(line)
  /\ StrLen(line) > MinContributionLen
  /\ ~StartsWith(line, <<"Role", ":">>)

\* the Contribution flushed from the buffers
FlushContribution(st) ==
  IF st.current_narrative # << >>
  THEN Append(st.contributions,
              Contribution(JoinSp(st.current_narrative), st.current_citations))
  ELSE st.contributions

\* an iteration in which the line that starts a new contribution is not kept
SectionCStepHeadingLost(st, line) ==
  IF HasCompleteList(line) THEN st
  ELSE IF /\ is_new_contribution(line)
          /\ (st.current_narrative # << >> \/ st.current_citations # << >>)
  THEN [contributions |-> FlushContribution(st),
        current_narrative |-> << >>, current_citations |-> << >>]
  ELSE IF is_citation_line(line)
  THEN [st EXCEPT !.current_citations = Append(@, parse_citation(line))]
  ELSE [st EXCEPT !.current_narrative = Append(@, line)]

\* one iteration of the loop of _parse_section_c on the state
\* st = [contributions, current_narrative, current_citations]
SectionCStep(st, line) ==
  IF HasCompleteList(line) THEN st
  ELSE IF /\ is_new_contribution(line)
          /\ (st.current_narrative # << >> \/ st.current_citations # << >>)
  THEN [contributions |-> FlushContribution(st),
        current_narrative |-> <<line>>, current_citations |-> << >>]
  ELSE IF is_citation_line(line)
  THEN [st EXCEPT !.current_citations = Append(@, parse_citation(line))]
  ELSE [st EXCEPT !.current_narrative = Append(@, line)]

RECURSIVE SectionCLoop(_, _)
SectionCLoop(st, content) ==
  IF content = << >> THEN st
  ELSE SectionCLoop(SectionCStep(st, Head(content)), Tail(content))

\* lines 373-375: no contribution, empty buffers
SectionCInit ==
  [contributions |-> << >>, current_narrative |-> << >>, current_citations |-> << >>]

\* the list _parse_section_c assigns to self.data.contributions
_parse_section_c(content) == FlushContribution(SectionCLoop(SectionCInit, content))

\* a section without content lines is not processed
ProcessSectionWithContent(data, section, content) ==
  IF content = << >> THEN data
  ELSE IF section = "A"
  THEN [data EXCEPT !.personal_statement = Some(_parse_section_a(content))]
  ELSE IF section = "B" THEN _parse_section_b(data, content)
  ELSE IF section = "C"
  THEN [data EXCEPT !.contributions = _parse_section_c(content)]
  ELSE data

\* self.data after _process_section(section, content)
_process_section(data, section, content) ==
  IF section = "A"
  THEN [data EXCEPT !.personal_statement = Some(_parse_section_a(content))]
  ELSE IF section = "B" THEN _parse_section_b(data, content)
  ELSE IF section = "C"
  THEN [data EXCEPT !.contributions = _parse_section_c(content)]
  ELSE data

(***************************************************************************)
(* biosketch_parser.py: the patterns of the driver.                        *)
(***************************************************************************)
\* SECTION_A_PATTERN = ^A\.\s*Personal\s*Statement, ignoring case
SECTION_A_PATTERN(s) ==
  LitAt(s, 1, <<"a", ".">>) /\ MatchWords(s, SkipWs(s, 3), <<"personal", "statement">>) # 0

\* SECTION_B_PATTERN = ^B\.\s*Positions, ignoring case
SECTION_B_PATTERN(s) ==
  LitAt(s, 1, <<"b", ".">>) /\ MatchWords(s, SkipWs(s, 3), <<"positions">>) # 0

\* SECTION_C_PATTERN = ^C\.\s*Contributions?\s*to\s*Science, ignoring case
SECTION_C_PATTERN(s) ==
  /\ LitAt(s, 1, <<"c", ".">>)
  /\ \E w \in {"contributions", "contribution"} :
       MatchWords(s, SkipWs(s, 3), <<w, "to", "science">>) # 0

\* the section a header line starts, None for any other line (lines 118-135)
SectionOf(text) ==
  IF SECTION_A_PATTERN(text) THEN Some("A")
  ELSE IF SECTION_B_PATTERN(text) THEN Some("B")
  ELSE IF SECTION_C_PATTERN(text) THEN Some("C")
  ELSE None

\* :\s*(.+)$ with the ":" at s[c]: group 1 stripped, None without a match
FieldAfterColon(s, c) ==
  IF c >= 1 /\ c <= Len(s) /\ s[c] = ":" /\ SkipWs(s, c + 1) <= Len(s)
  THEN Some(Strip(From(s, SkipWs(s, c + 1)))) ELSE None

\* NAME_PATTERN = ^NAME:\s*(.+)$, ignoring case
NAME_PATTERN(s) == IF LitAt(s, 1, <<"name">>) THEN FieldAfterColon(s, 2) ELSE None

\* ERA_COMMONS_PATTERN = ^eRA\s*COMMONS\s*USER\s*NAME[^:]*:\s*(.+)$, ignoring case
ERA_COMMONS_PATTERN(s) ==
  LET e == MatchWords(s, 1, <<"era", "commons", "user", "name">>)
  IN  IF e = 0 THEN None
      ELSE FieldAfterColon(s, MinOr0({k \in e..Len(s) : s[k] = ":"}))

\* POSITION_TITLE_PATTERN = ^POSITION\s*TITLE:\s*(.+)$, ignoring case
POSITION_TITLE_PATTERN(s) ==
  LET e == MatchWords(s, 1, <<"position", "title">>)
  IN  IF e = 0 THEN None ELSE FieldAfterColon(s, e)

\* self.doc.paragraphs[:15]
HeaderScan == 15

Min(a, b) == IF a < b THEN a ELSE b

\* a header field after a line matched its pattern with group 1 = value:
\* the assignment of lines 77, 82 and 87
AssignField(old, value) == value

\* one iteration of the loop of _parse_header: self.data after it
HeaderStep(data, para) ==
  LET text == Strip(para)
  IN  IF text = << >> THEN data
      ELSE IF NAME_PATTERN(text) # None
      THEN [data EXCEPT !.name = AssignField(@, NAME_PATTERN(text)[1])]
      ELSE IF ERA_COMMONS_PATTERN(text) # None
      THEN [data EXCEPT !.era_commons_username =
                          AssignField(@, ERA_COMMONS_PATTERN(text)[1])]
      ELSE IF POSITION_TITLE_PATTERN(text) # None
      THEN [data EXCEPT !.position_title =
                          AssignField(@, POSITION_TITLE_PATTERN(text)[1])]
      ELSE data

\* the guard left out: tables[0] is read whatever the document holds
NoTablesNever(tables) == FALSE

\* if not self.doc.tables: return
NoTables(tables) == tables = << >>

\* cells = [cell.text.strip() for cell in row.cells]
RowCells(row) == [i \in 1..Len(row) |-> Strip(row[i])]

\* the number of cells a row needs to yield a record (line 100)
MinCells == 4

\* len(cells) >= 4 and cells[0]
RowAccepted(cells) == Len(cells) >= MinCells /\ cells[1] # << >>

\* cells[k] if len(cells) > k else '' (k counted from 0)
CellOr(cells, k) == IF Len(cells) > k THEN cells[k + 1] ELSE << >>

\* the Education of an accepted row (lines 101-106)
RowEducation(cells) ==
  Education(cells[1], CellOr(cells, 1), CellOr(cells, 2), CellOr(cells, 3))

\* a section active before any header is seen
InitialSectionA == Some("A")

\* current_section = None (line 111)
InitialSection == None

\* the accumulator kept across a header
ContentKept(content) == content

\* section_content = [] after a header (lines 122, 128, 134)
ContentAfterHeader(content) == << >>

\* if current_section and text (line 138)
Collects(section, text) == section # None /\ text # << >>

\* one iteration of the loop over table.rows[1:]: self.data after it
EducationStep(data, row) ==
  IF RowAccepted(RowCells(row))
  THEN [data EXCEPT !.education = Append(@, RowEducation(RowCells(row)))]
  ELSE data

\* if current_section: self._process_section(current_section, section_content)
\* on st = [data, current_section, section_content, calls]: data is self.data
\* and calls lists the calls of _process_section made so far
Flush(st) ==
  IF st.current_section # None
  THEN [st EXCEPT !.data = _process_section(@, st.current_section[1],
                                            st.section_content),
                  !.calls = Append(@, [section |-> st.current_section[1],
                                       content |-> st.section_content])]
  ELSE st

\* the header branch of the loop of _parse_sections, after the flush
EnterSection(st, section) ==
  [st EXCEPT !.current_section = section,
             !.section_content = ContentAfterHeader(@)]

\* one iteration of the loop of _parse_sections
SectionStep(st, para) ==
  IF SectionOf(Strip(para)) # None
  THEN EnterSection(Flush(st), SectionOf(Strip(para)))
  ELSE IF Collects(st.current_section, Strip(para))
  THEN [st EXCEPT !.section_content = Append(@, Strip(para))]
  ELSE st

\* one BiosketchData object for all parsers
AllocDataShared(p) == 1

\* self.data = BiosketchData() of parser p: the object it refers to (line 44)
AllocData(p) == p

\* one current_section and section_content for all parsers
LocalsShared(p) == 1

\* the frame of parser p's call of _parse_sections, which holds its
\* current_section and section_content
Locals(p) == p

\* parse() run alone on a fresh parser over document d: the loops of
\* _parse_header, _parse_education_table and _parse_sections in turn
RECURSIVE HeaderLoop(_, _, _)
HeaderLoop(data, paras, i) ==
  IF i > Min(Len(paras), HeaderScan) THEN data
  ELSE HeaderLoop(HeaderStep(data, paras[i]), paras, i + 1)

RECURSIVE EducationLoop(_, _, _)
EducationLoop(data, rows, i) ==
  IF i > Len(rows) THEN data
  ELSE EducationLoop(EducationStep(data, rows[i]), rows, i + 1)

_parse_education_table(data, tables) ==
  IF NoTables(tables) THEN data ELSE EducationLoop(data, tables[1], 2)

RECURSIVE SectionsLoop(_, _, _)
SectionsLoop(st, paras, i) ==
  IF i > Len(paras) THEN Flush(st)
  ELSE SectionsLoop(SectionStep(st, paras[i]), paras, i + 1)

_parse_sections(data, paras) ==
  SectionsLoop([data |-> data, current_section |-> InitialSection,
                section_content |-> << >>, calls |-> << >>], paras, 1)

parse(data, d) ==
  _parse_sections(_parse_education_table(HeaderLoop(data, d.paragraphs, 1),
                                         d.tables),
                  d.paragraphs).data

(***************************************************************************)
(* State.                                                                  *)
(*   rt_*   a BiosketchData value, its plain form and the value restored   *)
(*   g_*    a block of research-support lines, the position and the state  *)
(*          of the loop of _parse_grants over it and the list it returns   *)
(*   s_*    the content of a section, the position and the state of the    *)
(*          loop of its section parser over it and what the parser leaves  *)
(*   c_*    a text given to CitationParser, the parts it was written from  *)
(*          and what CitationParser returns for it; the loop of            *)
(*          split_citations over the lines of the text uses s_*            *)
(***************************************************************************)
VARIABLES rt_v, rt_plain, rt_restored, rt_pc, g_lines, g_i, g_st, g_out,
          file, pc, idx, self_data, heap, current_section, section_content,
          budget, returned, seen, raised, calls,
          s_lines, s_i, s_st, s_out, c_parts, c_text, c_out

rtVars == <<rt_v, rt_plain, rt_restored, rt_pc>>
gVars == <<g_lines, g_i, g_st, g_out>>
pVars == <<file, pc, idx, self_data, heap, current_section, section_content,
           budget, returned, seen, raised, calls>>
sVars == <<s_lines, s_i, s_st, s_out>>
cVars == <<c_parts, c_text, c_out>>
vars == <<rt_v, rt_plain, rt_restored, rt_pc, g_lines, g_i, g_st, g_out,
          file, pc, idx, self_data, heap, current_section, section_content,
          budget, returned, seen, raised, calls,
          s_lines, s_i, s_st, s_out, c_parts, c_text, c_out>>

(***************************************************************************)
(* Round trip of a BiosketchData value through its plain form.  The value  *)
(* is any BiosketchData built from at most MaxItems field settings and     *)
(* list elements.                                                          *)
(***************************************************************************)
Strs == {<<"Smith">>, <<"Parker", " ", "AB">>}

EducationVals ==
  {Education(<<"Chicago">>, <<"A">>, <<"2020">>, <<"Science">>),
   Education(<<"Chicago">>, << >>, <<"02", "/", "2025">>, << >>)}

PositionVals ==
  {Position(<<"2020", "-", "2025">>, <<"Fellow">>, <<"Chicago">>),
   Position(<<"2020", "-", "Present">>, <<"Professor">>, << >>)}

HonorVals == {Honor(<<"2020">>, <<"Award">>), Honor(<<"2025">>, <<"Fellow">>)}

GrantVals ==
  {GrantDefault,
   Grant(<<"NIH">>, <<"150291">>, <<"Parker">>, << >>, <<"Allocation">>, <<"PI">>)}

CitationVals ==
  {Citation(<<"Smith", " ", "AB">>, None, None, None),
   Citation(<<"PMID", ":", " ", "150291">>, Some(<<"150291">>), None, None)}

rtIdle ==
  /\ rt_v = BiosketchDataDefault
  /\ rt_plain = None
  /\ rt_restored = None
  /\ rt_pc = "idle"

gIdle ==
  /\ g_lines = << >>
  /\ g_i = 0
  /\ g_st = GrantInit
  /\ g_out = None

sIdle ==
  /\ s_lines = << >>
  /\ s_i = 0
  /\ s_st = None
  /\ s_out = None

cIdle ==
  /\ c_parts = << >>
  /\ c_text = << >>
  /\ c_out = None

\* the parsers of a run and the objects they can refer to
Parsers == {1, 2}

\* no parser exists: the state of the parser variables outside the parser runs
InitParsers(files, passes) ==
  /\ file = files
  /\ pc = [p \in Parsers |-> IF passes[p] = 0 THEN "off" ELSE "new"]
  /\ idx = [p \in Parsers |-> 0]
  /\ self_data = [p \in Parsers |-> 0]
  /\ heap = [o \in Parsers |-> BiosketchDataDefault]
  /\ current_section = [p \in Parsers |-> None]
  /\ section_content = [p \in Parsers |-> << >>]
  /\ budget = passes
  /\ returned = [p \in Parsers |-> << >>]
  /\ seen = [p \in Parsers |-> << >>]
  /\ raised = [p \in Parsers |-> "none"]
  /\ calls = [p \in Parsers |-> << >>]

pIdle == InitParsers([p \in Parsers |-> None], [p \in Parsers |-> 0])

\* the number of field settings and list elements v is built from
Items(v) ==
  LET ps == v.personal_statement
      RECURSIVE ContribItems(_)
      ContribItems(cs) ==
        IF cs = << >> THEN 0 ELSE 1 + Len(Head(cs).citations) + ContribItems(Tail(cs))
  IN  (IF v.name = << >> THEN 0 ELSE 1)
      + (IF v.era_commons_username = << >> THEN 0 ELSE 1)
      + (IF v.position_title = << >> THEN 0 ELSE 1)
      + Len(v.education) + Len(v.positions) + Len(v.honors)
      + ContribItems(v.contributions)
      + (IF ps = None THEN 0
         ELSE 1 + (IF ps[1].text = << >> THEN 0 ELSE 1)
                + Len(ps[1].grants) + Len(ps[1].citations))

RTBuild(w) ==
  /\ rt_pc = "build"
  /\ Items(rt_v) < MaxItems
  /\ rt_v' = w
  /\ UNCHANGED <<rt_plain, rt_restored, rt_pc, gVars, pVars, sVars, cVars>>

RTSetName == \E s \in Strs : rt_v.name = << >> /\ RTBuild([rt_v EXCEPT !.name = s])

RTSetEra ==
  \E s \in Strs :
    rt_v.era_commons_username = << >> /\ RTBuild([rt_v EXCEPT !.era_commons_username = s])

RTSetTitle ==
  \E s \in Strs : rt_v.position_title = << >> /\ RTBuild([rt_v EXCEPT !.position_title = s])

RTAddEducation ==
  \E e \in EducationVals : RTBuild([rt_v EXCEPT !.education = Append(@, e)])

RTAddPosition ==
  \E e \in PositionVals : RTBuild([rt_v EXCEPT !.positions = Append(@, e)])

RTAddHonor == \E e \in HonorVals : RTBuild([rt_v EXCEPT !.honors = Append(@, e)])

RTAddContribution ==
  \E s \in Strs :
    RTBuild([rt_v EXCEPT !.contributions = Append(@, Contribution(s, << >>))])

RTAddContributionCitation ==
  \E c \in CitationVals :
    /\ rt_v.contributions # << >>
    /\ RTBuild([rt_v EXCEPT !.contributions[Len(rt_v.contributions)].citations =
                              Append(@, c)])

RTSetStatement ==
  /\ rt_v.personal_statement = None
  /\ RTBuild([rt_v EXCEPT !.personal_statement =
                            Some(PersonalStatement(<< >>, << >>, << >>))])

RTSetStatementText ==
  \E s \in Strs :
    /\ rt_v.personal_statement # None
    /\ rt_v.personal_statement[1].text = << >>
    /\ RTBuild([rt_v EXCEPT !.personal_statement[1].text = s])

RTAddGrant ==
  \E g \in GrantVals :
    /\ rt_v.personal_statement # None
    /\ RTBuild([rt_v EXCEPT !.personal_statement[1].grants = Append(@, g)])

RTAddCitation ==
  \E c \in CitationVals :
    /\ rt_v.personal_statement # None
    /\ RTBuild([rt_v EXCEPT !.personal_statement[1].citations = Append(@, c)])

\* d = v.to_dict()
RTToDict ==
  /\ rt_pc = "build"
  /\ rt_plain' = Some(BiosketchToDict(rt_v))
  /\ rt_pc' = "plain"
  /\ UNCHANGED <<rt_v, rt_restored, gVars, pVars, sVars, cVars>>

\* restored = BiosketchData.from_dict(d)
RTFromDict ==
  /\ rt_pc = "plain"
  /\ rt_restored' = Some(BiosketchFromDict(rt_plain[1]))
  /\ rt_pc' = "done"
  /\ UNCHANGED <<rt_v, rt_plain, gVars, pVars, sVars, cVars>>

InitRT ==
  /\ rt_v = BiosketchDataDefault
  /\ rt_plain = None
  /\ rt_restored = None
  /\ rt_pc = "build"
  /\ gIdle
  /\ sIdle
  /\ cIdle
  /\ pIdle

NextRT ==
  \/ RTSetName \/ RTSetEra \/ RTSetTitle
  \/ RTAddEducation \/ RTAddPosition \/ RTAddHonor
  \/ RTAddContribution \/ RTAddContributionCitation
  \/ RTSetStatement \/ RTSetStatementText \/ RTAddGrant \/ RTAddCitation
  \/ RTToDict
  \/ RTFromDict

SpecRT == InitRT /\ [][NextRT]_vars

(***************************************************************************)
(* BiosketchParser.  file[p] is the document at the path parser p is given *)
(* (None: it cannot be opened); a document is its paragraphs' texts and    *)
(* its tables, a table the rows of its cells' texts.  self_data[p] is the  *)
(* object self.data refers to and heap its value.  returned[p] lists the   *)
(* references parse() has returned, seen[p] their values at the return and *)
(* calls[p] the calls of _process_section of the current pass.             *)
(***************************************************************************)
Doc(p) == file[p][1]

\* where a running call of parse() on p stands: in a loop with an element
\* left, or at the end of the loop
AtHeaderLine(p) ==
  pc[p] = "header" /\ idx[p] <= Min(Len(Doc(p).paragraphs), HeaderScan)

AtHeaderEnd(p) ==
  pc[p] = "header" /\ idx[p] > Min(Len(Doc(p).paragraphs), HeaderScan)

AtEducationRow(p) ==
  /\ pc[p] = "education"
  /\ ~NoTables(Doc(p).tables)
  /\ Doc(p).tables = << >> \/ idx[p] <= Len(Doc(p).tables[1])

AtEducationEnd(p) ==
  /\ pc[p] = "education"
  /\ \/ NoTables(Doc(p).tables)
     \/ Doc(p).tables # << >> /\ idx[p] > Len(Doc(p).tables[1])

AtSectionLine(p) == pc[p] = "sections" /\ idx[p] <= Len(Doc(p).paragraphs)

AtSectionsEnd(p) == pc[p] = "sections" /\ idx[p] > Len(Doc(p).paragraphs)

\* BiosketchParser.__init__
ParserInit(p) ==
  /\ pc[p] = "new"
  /\ IF file[p] = None
     THEN /\ pc' = [pc EXCEPT ![p] = "failed"]
          /\ raised' = [raised EXCEPT ![p] = "open"]
          /\ UNCHANGED <<self_data, heap>>
     ELSE /\ pc' = [pc EXCEPT ![p] = "ready"]
          /\ self_data' = [self_data EXCEPT ![p] = AllocData(p)]
          /\ heap' = [heap EXCEPT ![AllocData(p)] = BiosketchDataDefault]
          /\ UNCHANGED raised
  /\ UNCHANGED <<file, idx, current_section, section_content, budget, returned,
                 seen, calls, rtVars, gVars, sVars, cVars>>

\* a call of parse(): entry of _parse_header
ParseCall(p) ==
  /\ pc[p] = "ready"
  /\ budget[p] > 0
  /\ budget' = [budget EXCEPT ![p] = @ - 1]
  /\ pc' = [pc EXCEPT ![p] = "header"]
  /\ idx' = [idx EXCEPT ![p] = 1]
  /\ calls' = [calls EXCEPT ![p] = << >>]
  /\ UNCHANGED <<file, self_data, heap, current_section, section_content,
                 returned, seen, raised, rtVars, gVars, sVars, cVars>>

\* one iteration of the loop of _parse_header
HeaderLine(p) ==
  /\ AtHeaderLine(p)
  /\ heap' = [heap EXCEPT ![self_data[p]] = HeaderStep(@, Doc(p).paragraphs[idx[p]])]
  /\ idx' = [idx EXCEPT ![p] = @ + 1]
  /\ UNCHANGED <<file, pc, self_data, current_section, section_content, budget,
                 returned, seen, raised, calls, rtVars, gVars, sVars, cVars>>

\* the end of _parse_header and the entry of _parse_education_table
HeaderDone(p) ==
  /\ AtHeaderEnd(p)
  /\ pc' = [pc EXCEPT ![p] = "education"]
  /\ idx' = [idx EXCEPT ![p] = 2]
  /\ UNCHANGED <<file, self_data, heap, current_section, section_content,
                 budget, returned, seen, raised, calls, rtVars, gVars, sVars, cVars>>

\* table = self.doc.tables[0] and one iteration of the loop over rows[1:];
\* tables[0] of a document without tables raises IndexError
EducationRow(p) ==
  /\ AtEducationRow(p)
  /\ IF Doc(p).tables = << >>
     THEN /\ pc' = [pc EXCEPT ![p] = "failed"]
          /\ raised' = [raised EXCEPT ![p] = "IndexError"]
          /\ UNCHANGED <<heap, idx>>
     ELSE /\ heap' = [heap EXCEPT ![self_data[p]] =
                        EducationStep(@, Doc(p).tables[1][idx[p]])]
          /\ idx' = [idx EXCEPT ![p] = @ + 1]
          /\ UNCHANGED <<pc, raised>>
  /\ UNCHANGED <<file, self_data, current_section, section_content, budget,
                 returned, seen, calls, rtVars, gVars, sVars, cVars>>

\* the return of _parse_education_table and the entry of _parse_sections
EducationDone(p) ==
  /\ AtEducationEnd(p)
  /\ pc' = [pc EXCEPT ![p] = "sections"]
  /\ idx' = [idx EXCEPT ![p] = 1]
  /\ current_section' = [current_section EXCEPT ![Locals(p)] = InitialSection]
  /\ section_content' = [section_content EXCEPT ![Locals(p)] = << >>]
  /\ UNCHANGED <<file, self_data, heap, budget, returned, seen, raised, calls,
                 rtVars, gVars, sVars, cVars>>

\* what _parse_sections of parser p works on
SectionState(p) ==
  [data |-> heap[self_data[p]],
   current_section |-> current_section[Locals(p)],
   section_content |-> section_content[Locals(p)],
   calls |-> calls[p]]

\* the state of _parse_sections of parser p becomes st
SetSectionState(p, st) ==
  /\ heap' = [heap EXCEPT ![self_data[p]] = st.data]
  /\ current_section' = [current_section EXCEPT ![Locals(p)] = st.current_section]
  /\ section_content' = [section_content EXCEPT ![Locals(p)] = st.section_content]
  /\ calls' = [calls EXCEPT ![p] = st.calls]

\* one iteration of the loop of _parse_sections
SectionLine(p) ==
  /\ AtSectionLine(p)
  /\ SetSectionState(p, SectionStep(SectionState(p), Doc(p).paragraphs[idx[p]]))
  /\ idx' = [idx EXCEPT ![p] = @ + 1]
  /\ UNCHANGED <<file, pc, self_data, budget, returned, seen, raised, rtVars, gVars, sVars, cVars>>

\* the last section of _parse_sections and return self.data
SectionsDone(p) ==
  /\ AtSectionsEnd(p)
  /\ SetSectionState(p, Flush(SectionState(p)))
  /\ returned' = [returned EXCEPT ![p] = Append(@, self_data[p])]
  /\ seen' = [seen EXCEPT ![p] = Append(@, heap'[self_data[p]])]
  /\ pc' = [pc EXCEPT ![p] = "ready"]
  /\ UNCHANGED <<file, idx, self_data, budget, raised, rtVars, gVars, sVars, cVars>>

\* a step inside a running call of parse()
Run(p) ==
  \/ HeaderLine(p) \/ HeaderDone(p)
  \/ EducationRow(p) \/ EducationDone(p)
  \/ SectionLine(p) \/ SectionsDone(p)

Next == \E p \in Parsers : ParserInit(p) \/ ParseCall(p) \/ Run(p)

\* the sequences over S of length at most n
SeqsUpTo(S, n) == UNION {[1..k -> S] : k \in 0..n}

(***************************************************************************)
(* Documents.                                                              *)
(***************************************************************************)
BlankLine == <<" ">>
NameSmith == <<"NAME", ":", " ", "Smith">>
NameParker == <<" ", "NAME", ":", "Parker", " ", "AB", " ">>
EraLine == <<"eRA", " ", "COMMONS", " ", "USER", " ", "NAME", ":", " ", "Smith">>
TitleLine == <<"POSITION", " ", "TITLE", ":", " ", "Professor">>
HeaderA == <<"A", ".", " ", "Personal", " ", "Statement">>
HeaderB == <<"B", ".", " ", "Positions", ",", " ", "Scientific", " ", "Appointments">>
HeaderC == <<"C", ".", " ", "Contributions", " ", "to", " ", "Science">>
PositionLine == <<"2020", "-", "2025", " ", "Fellow", ",", " ", "Chicago">>
CitationLine ==
  <<"1", ".", " ", "Smith", " ", "AB", ",", " ", "PMID", ":", " ", "150291">>

FullRow == <<<<"Chicago">>, <<"A">>, <<"2020">>, <<"Science">>>>
ShortRow == <<<<"Chicago">>, <<"A">>, <<"2020">>>>
NoInstitutionRow == << <<" ">>, <<"A">>, <<"2020">>, <<"Science">>>>
LongRow == << <<" ", "Chicago">>, << >>, <<"2025">>, <<"Science">>, <<"B">>>>
TitleRow == << <<"A">>, <<"B">>, <<"C">>, <<"AB">>>>

\* a table of its title row and one full row
OneRowTable == <<TitleRow, FullRow>>

MakeDoc(ps, ts) == Some([paragraphs |-> ps, tables |-> ts])

\* whole documents: up to MaxParas paragraphs, without a table or with one
Pool ==
  {BlankLine, NameSmith, HeaderA, HeaderB, HeaderC, PositionLine, CitationLine}

Docs ==
  {MakeDoc(ps, ts) : ps \in SeqsUpTo(Pool, MaxParas), ts \in {<< >>, <<OneRowTable>>}}

\* one parser, called up to MaxPasses times, over any document of Docs or a
\* file that cannot be opened
Init ==
  /\ rtIdle
  /\ gIdle
  /\ sIdle
  /\ cIdle
  /\ \E d \in Docs \cup {None} :
       InitParsers([p \in Parsers |-> IF p = 1 THEN d ELSE None],
                   [p \in Parsers |-> IF p = 1 THEN MaxPasses ELSE 0])

Spec == Init /\ [][Next]_vars

(***************************************************************************)
(* Header runs: one parser, one call, over documents of header lines that  *)
(* start with no, HeaderScan - 1 or HeaderScan blank paragraphs.           *)
(***************************************************************************)
HeaderPool == {BlankLine, NameSmith, NameParker, EraLine, TitleLine}

Padding(n) == [i \in 1..n |-> BlankLine]

HeaderDocs ==
  {MakeDoc(Padding(n) \o ps, <<OneRowTable>>) :
     n \in {0, HeaderScan - 1, HeaderScan}, ps \in SeqsUpTo(HeaderPool, MaxHeaderParas)}

InitHeader ==
  /\ rtIdle
  /\ gIdle
  /\ sIdle
  /\ cIdle
  /\ \E d \in HeaderDocs :
       InitParsers([p \in Parsers |-> IF p = 1 THEN d ELSE None],
                   [p \in Parsers |-> IF p = 1 THEN 1 ELSE 0])

SpecHeader == InitHeader /\ [][Next]_vars

(***************************************************************************)
(* Education runs: one parser over documents whose first table has up to   *)
(* MaxRows data rows of three, four or five cells, or no row at all.       *)
(***************************************************************************)
RowPool == {FullRow, ShortRow, NoInstitutionRow, LongRow}

FirstTables == {<< >>} \cup {<<TitleRow>> \o rows : rows \in SeqsUpTo(RowPool, MaxRows)}

EduDocs ==
  {MakeDoc(ps, ts) :
     ps \in {<< >>, <<HeaderB, PositionLine>>},
     ts \in {<< >>} \cup {<<t>> : t \in FirstTables}
                    \cup {<<t, OneRowTable>> : t \in FirstTables}}

InitEdu ==
  /\ rtIdle
  /\ gIdle
  /\ sIdle
  /\ cIdle
  /\ \E d \in EduDocs :
       InitParsers([p \in Parsers |-> IF p = 1 THEN d ELSE None],
                   [p \in Parsers |-> IF p = 1 THEN MaxPasses ELSE 0])

SpecEdu == InitEdu /\ [][Next]_vars

(***************************************************************************)
(* Two parsers, each called once over its own document, their steps        *)
(* interleaved in any order.                                               *)
(***************************************************************************)
PairPool == {NameSmith, HeaderB, PositionLine}

PairDocs ==
  {MakeDoc(ps, ts) :
     ps \in SeqsUpTo(PairPool, MaxPairParas), ts \in {<< >>, <<OneRowTable>>}}

InitPair ==
  /\ rtIdle
  /\ gIdle
  /\ sIdle
  /\ cIdle
  /\ \E d1 \in PairDocs : \E d2 \in PairDocs :
       InitParsers([p \in Parsers |-> IF p = 1 THEN d1 ELSE d2],
                   [p \in Parsers |-> 1])

SpecPair == InitPair /\ [][Next]_vars

(***************************************************************************)
(* _parse_grants over a block of up to MaxGrantLines lines.                *)
(***************************************************************************)
GrantPool ==
  {<<" ">>,
   <<"NIH">>,
   <<"NIH", " ", "150291">>,
   <<"NIH", " ", "Parker", " ", "(", "PI", ")">>,
   <<"NIH", " ", "(", "PI", ")">>,
   <<"NIH", " ", "150291", " ", "Parker", " ", "(", "PI", ")", " ",
     "02", "/", "2020", " ", "-", " ", "10", "/", "2025">>,
   <<"NIH", " ", "150291", " ", "Parker", " ", "02", "/", "2020", "-", "10", "/", "2025">>,
   <<"NIH", " ", "02", "/", "2020", "-", "10", "/", "2025", " ",
     "10", "/", "2020", "-", "02", "/", "2025">>,
   <<"Various", " ", "Mechanisms", " ", "(", "PI", ")">>,
   <<"Role", ":", " ", "PI">>,
   <<"Mechanisms", " ", "of", " ", "Allocation">>}

\* the entry of _parse_grants
GrantsCall ==
  /\ g_i = 0
  /\ g_out = None
  /\ g_i' = 1
  /\ g_st' = GrantInit
  /\ UNCHANGED <<g_lines, g_out, rtVars, pVars, sVars, cVars>>

\* one iteration of the while loop of _parse_grants
GrantLine ==
  /\ g_i >= 1
  /\ g_i <= Len(g_lines)
  /\ g_st' = GrantStep(g_st, g_lines[g_i])
  /\ g_i' = g_i + 1
  /\ UNCHANGED <<g_lines, g_out, rtVars, pVars, sVars, cVars>>

\* the last grant and return grants
GrantsReturn ==
  /\ g_i > Len(g_lines)
  /\ g_out = None
  /\ g_out' = Some(GrantsOf(g_st))
  /\ UNCHANGED <<g_lines, g_i, g_st, rtVars, pVars, sVars, cVars>>

InitGrants ==
  /\ rtIdle
  /\ pIdle
  /\ sIdle
  /\ cIdle
  /\ g_lines \in SeqsUpTo(GrantPool, MaxGrantLines)
  /\ g_i = 0
  /\ g_st = GrantInit
  /\ g_out = None

NextGrants == GrantsCall \/ GrantLine \/ GrantsReturn

SpecGrants == InitGrants /\ [][NextGrants]_vars

(***************************************************************************)
(* Properties.                                                             *)
(***************************************************************************)
\* C1: the value restored from the plain form of v is structurally equal to
\* v: same fields, lists in the same order, an absent personal statement
\* restored as None and a present one (also an empty one) as itself.
RoundTrip == rt_pc = "done" => rt_restored = Some(rt_v)

\* a round trip of a value holding an empty personal statement and a list of
\* two different elements
RoundTripWitness ==
  /\ rt_pc = "done"
  /\ rt_v.personal_statement = Some(PersonalStatement(<< >>, << >>, << >>))
  /\ Len(rt_v.education) = 2
  /\ rt_v.education[1] # rt_v.education[2]

\* the parsers that exist
Constructed(p) == pc[p] \notin {"off", "new", "failed"}

\* the value parser p's k-th call of parse() returned, as it is now
Returned(p, k) == heap[returned[p][k]]

\* C2: two parsers given the same document, each called once, return
\* structurally equal values.
Determinism ==
  (file[1] = file[2] /\ returned[1] # << >> /\ returned[2] # << >>)
    => seen[1][1] = seen[2][1]

\* both parsers have returned from the same document, which has a table row
\* and a position line
DeterminismWitness ==
  /\ file[1] = file[2]
  /\ returned[1] # << >> /\ returned[2] # << >>
  /\ Len(seen[1][1].education) = 1
  /\ Len(seen[2][1].positions) = 1

\* C3: a value parse() has returned is never changed afterwards, also not
\* by a later call of parse() on the same parser.
ReturnedRecordFrozen ==
  \A p \in Parsers : \A k \in 1..Len(returned[p]) : Returned(p, k) = seen[p][k]

NoHeaderLine(paras) == \A i \in 1..Len(paras) : SectionOf(Strip(paras[i])) = None

EmptyResult(v) ==
  /\ v.education = << >> /\ v.positions = << >>
  /\ v.honors = << >> /\ v.contributions = << >>
  /\ v.personal_statement = None

\* C4: over a document with no tables and no line matching a section
\* header, parse() does not raise and every value it returns has empty
\* education, positions, honors and contributions and no personal statement.
EmptyDocument ==
  \A p \in Parsers :
    (file[p] # None /\ Doc(p).tables = << >> /\ NoHeaderLine(Doc(p).paragraphs))
      => /\ raised[p] = "none"
         /\ \A k \in 1..Len(seen[p]) : EmptyResult(seen[p][k])

\* parse() has returned over a document without tables whose paragraphs are
\* a position line and a blank line
EmptyDocumentWitness ==
  /\ pc[1] = "ready"
  /\ returned[1] # << >>
  /\ Doc(1).tables = << >>
  /\ Doc(1).paragraphs = <<PositionLine, BlankLine>>

Running(p) == pc[p] \in {"header", "education", "sections"}

\* the rows of the first table, none without a table
FirstRows(p) == IF Doc(p).tables = << >> THEN << >> ELSE Doc(p).tables[1]

\* a bound on the steps a call of parse() on p has left: the iterations left
\* in the running loop, and the whole of the loops not yet entered
Measure(p) ==
  LET n == Len(Doc(p).paragraphs)
      r == Len(FirstRows(p))
      rank == CASE pc[p] = "header" -> 3
                [] pc[p] = "education" -> 2
                [] pc[p] = "sections" -> 1
                [] OTHER -> 0
      limit == CASE pc[p] = "header" -> Min(n, HeaderScan)
                 [] pc[p] = "education" -> r
                 [] OTHER -> n
      left == IF limit + 1 >= idx[p] THEN limit + 1 - idx[p] ELSE 0
  IN  IF Running(p) THEN rank * (n + r + 3) + left ELSE 0

\* nothing raises but the constructor whose document cannot be opened,
\* before any step of parse()
OnlyOpenRaises(p) ==
  /\ raised[p] # "none"
       => /\ raised[p] = "open" /\ file[p] = None
          /\ pc[p] = "failed" /\ idx[p] = 0 /\ returned[p] = << >>
  /\ file[p] = None => ~Constructed(p)

\* a step of a running call of parse() on p uses up the measure and ends
\* either still running or with a BiosketchData value returned
StepTowardsReturn(p) ==
  (Running(p) /\ <<pc[p], idx[p]>>' # <<pc[p], idx[p]>>)
    => /\ Measure(p)' < Measure(p)
       /\ \/ Running(p)'
          \/ /\ pc'[p] = "ready"
             /\ Len(returned'[p]) = Len(returned[p]) + 1
             /\ heap'[returned'[p][Len(returned'[p])]].cls = "BiosketchData"

\* a running call of parse() on p has a next step
CanStep(p) ==
  \/ AtHeaderLine(p) \/ AtHeaderEnd(p)
  \/ AtEducationRow(p) \/ AtEducationEnd(p)
  \/ AtSectionLine(p) \/ AtSectionsEnd(p)

\* C5: a call of parse() on a parser that could be constructed terminates
\* and returns a BiosketchData value: while it runs it has a next step,
\* every step uses up a bounded measure, and nothing raises but the
\* constructor whose document cannot be opened.
ParseReturns ==
  /\ [](\A p \in Parsers : OnlyOpenRaises(p) /\ (Running(p) => CanStep(p)))
  /\ [][\A p \in Parsers : StepTowardsReturn(p)]_vars

\* parse() has returned over a document without tables whose section
\* headers are out of order and repeated
ParseReturnsWitness ==
  /\ pc[1] = "ready"
  /\ returned[1] # << >>
  /\ raised[1] = "none"
  /\ Doc(1).tables = << >>
  /\ Doc(1).paragraphs = <<HeaderC, HeaderA, PositionLine, HeaderA>>

\* C6: with the steps of two parsers interleaved in any order, each returns
\* the value parse() returns when run alone over its document, the value it
\* returned stays that value, and the two parsers' self.data are different
\* objects.
Isolation ==
  /\ \A p \in Parsers :
       returned[p] # << >>
         => /\ seen[p][1] = parse(BiosketchDataDefault, Doc(p))
            /\ Returned(p, 1) = parse(BiosketchDataDefault, Doc(p))
  /\ (Constructed(1) /\ Constructed(2)) => self_data[1] # self_data[2]

\* parser 1 has returned its positions while parser 2, over another
\* document, is collecting the lines of a section
IsolationWitness ==
  /\ returned[1] # << >>
  /\ seen[1][1].positions # << >>
  /\ file[1] # file[2]
  /\ pc[2] = "sections"
  /\ section_content[2] # << >>

HeaderIdx(paras) == {i \in 1..Len(paras) : SectionOf(Strip(paras[i])) # None}

\* the first header after paragraph h, Len(paras) + 1 if none
NextHeader(paras, h) ==
  LET H == {i \in HeaderIdx(paras) : i > h}
  IN  IF H = {} THEN Len(paras) + 1 ELSE CHOOSE i \in H : \A k \in H : i <= k

NonBlank(text) == text # << >>

\* the stripped non-blank paragraphs strictly between paragraphs a and b
ContentBetween(paras, a, b) ==
  SelectSeq([i \in 1..(b - a - 1) |-> Strip(paras[a + i])], NonBlank)

\* one call per header occurrence, in document order: the section of the
\* header and the lines up to the next header
ExpectedCalls(paras) ==
  LET H == HeaderIdx(paras)
      Nth(j) == CHOOSE h \in H : Cardinality({x \in H : x <= h}) = j
  IN  [j \in 1..Cardinality(H) |->
         [section |-> SectionOf(Strip(paras[Nth(j)]))[1],
          content |-> ContentBetween(paras, Nth(j), NextHeader(paras, Nth(j)))]]

\* C7: when a call of parse() returns, the calls of _process_section it
\* made are one per header occurrence, in document order, each with the
\* header's section and the non-blank lines between that header and the
\* next one (or the end); lines before the first header are in no call.
Segmentation ==
  \A p \in Parsers :
    (pc[p] = "ready" /\ returned[p] # << >>)
      => calls[p] = ExpectedCalls(Doc(p).paragraphs)

\* parse() has returned over a line before any header, a header, a line of
\* its section and a second header
SegmentationWitness ==
  /\ pc[1] = "ready"
  /\ returned[1] # << >>
  /\ Doc(1).paragraphs = <<PositionLine, HeaderB, PositionLine, HeaderA>>
  /\ Len(calls[1]) = 2

\* the group of the first of the scanned paragraphs matching Pattern, the
\* empty string if none matches
FirstMatch(Pattern(_), paras) ==
  LET M == {i \in 1..Min(Len(paras), HeaderScan) : Pattern(Strip(paras[i])) # None}
  IN  IF M = {} THEN << >>
      ELSE Pattern(Strip(paras[CHOOSE i \in M : \A k \in M : i <= k]))[1]

\* a call of parse() on p is past _parse_header
PastHeader(p) ==
  \/ pc[p] \in {"education", "sections"}
  \/ pc[p] = "ready" /\ returned[p] # << >>

\* C8: after _parse_header, each header field holds the value of the first
\* scanned paragraph matching its pattern, the empty string if none does.
HeaderFirstMatchWins ==
  \A p \in Parsers :
    PastHeader(p)
      => /\ heap[self_data[p]].name = FirstMatch(NAME_PATTERN, Doc(p).paragraphs)
         /\ heap[self_data[p]].era_commons_username =
              FirstMatch(ERA_COMMONS_PATTERN, Doc(p).paragraphs)
         /\ heap[self_data[p]].position_title =
              FirstMatch(POSITION_TITLE_PATTERN, Doc(p).paragraphs)

HasInstitution(row) == row # << >> /\ Strip(row[1]) # << >>

\* one Education per data row of the first table with a non-empty first
\* cell, missing trailing cells filled with the empty string
ExpectedEducation(tables) ==
  IF tables = << >> THEN << >>
  ELSE LET rows == SelectSeq(SubSeq(tables[1], 2, Len(tables[1])), HasInstitution)
       IN  [k \in 1..Len(rows) |->
              Education(CellOr(RowCells(rows[k]), 0), CellOr(RowCells(rows[k]), 1),
                        CellOr(RowCells(rows[k]), 2), CellOr(RowCells(rows[k]), 3))]

\* the first call of parse() on p is past _parse_education_table
FirstPassPastEducation(p) ==
  \/ pc[p] = "sections" /\ returned[p] = << >>
  \/ pc[p] = "ready" /\ Len(returned[p]) = 1

\* C9: after _parse_education_table the education list holds, in row
\* order, one record per data row of the first table whose first cell is
\* non-empty, rows of fewer than four cells included.
EducationOfRows ==
  \A p \in Parsers :
    FirstPassPastEducation(p)
      => heap[self_data[p]].education = ExpectedEducation(Doc(p).tables)

\* a line that starts with a funder token and does not match
\* grant_header_pattern
FallbackLine(raw) ==
  /\ SimpleGrantMatch(Strip(raw))
  /\ GrantFromHeader(Strip(raw)) = None

\* the lines of a block that start a grant
GrantStarts(lines) ==
  {i \in 1..Len(lines) :
     GrantFromHeader(Strip(lines[i])) # None \/ SimpleGrantMatch(Strip(lines[i]))}

\* C10: a line that starts with a funder token and does not match the
\* header pattern becomes the current grant with a non-empty funder, and
\* the list returned has one grant per line that starts a grant.
FallbackKeepsFunder ==
  /\ (g_i >= 2 /\ FallbackLine(g_lines[g_i - 1]))
       => /\ g_st.current_grant # None
          /\ g_st.current_grant[1].funder # << >>
  /\ g_out # None => Len(g_out[1]) = Cardinality(GrantStarts(g_lines))

\* whether the line holds a parenthesised text: a "(" and, later, a ")"
HasParenRole(raw) ==
  \E e \in 1..Len(raw) : raw[e] = "(" /\ \E f \in (e + 1)..Len(raw) : raw[f] = ")"

\* the index of the line that starts the k-th grant of the block
NthStart(lines, k) ==
  CHOOSE i \in GrantStarts(lines) :
    Cardinality({j \in GrantStarts(lines) : j <= i}) = k

\* the lines after the one that starts the k-th grant, up to the next start
GrantTail(lines, k) ==
  LET later == {j \in GrantStarts(lines) : j > NthStart(lines, k)}
      stop == IF later = {} THEN Len(lines) + 1
              ELSE CHOOSE j \in later : \A m \in later : j <= m
  IN  (NthStart(lines, k) + 1)..(stop - 1)

\* the source gives no role for the k-th grant: no parenthesised role on the
\* line that starts it and no Role: line after it
NoRoleGiven(lines, k) ==
  /\ ~HasParenRole(lines[NthStart(lines, k)])
  /\ \A j \in GrantTail(lines, k) : RoleMatch(Strip(lines[j])) = None

\* C11: every grant returned for which the block gives no role (no
\* parenthesised role on its first line, no Role: line after it) has the
\* role "PI".
RoleDefaultsToPI ==
  (g_out # None /\ Len(g_out[1]) = Cardinality(GrantStarts(g_lines)))
    => \A k \in 1..Len(g_out[1]) :
         NoRoleGiven(g_lines, k) => g_out[1][k].role = <<"PI">>

(***************************************************************************)
(* _parse_section_b over the content of a section B of up to               *)
(* MaxSectionLines lines, on a parser whose lists are still empty.  The    *)
(* lines of a section's content are stripped and not empty (line 138).     *)
(***************************************************************************)
PositionsSubHeader == <<"Positions", " ", "and", " ", "Scientific", " ", "Appointments">>
HonorsSubHeader == <<"Honors">>
PresentLine == <<"2020", "-", "Present", " ", " ", "Professor">>
SpacedCommaLine == <<"2020", "-", "2025", " ", "Fellow", " ", ",", " ", "Chicago">>
ThreePartLine == <<"2020", "-", "2025", " ", "Fellow", ",", "A", ",", " ", "Chicago">>
RangeOnlyLine == <<"2020", "-", "2025">>
CommaFirstLine == <<"2020", "-", "2025", " ", ",", " ", "Chicago">>
HonorLine == <<"2020", " ", " ", "Award">>
ShortYearLine == <<"20", " ", "Award">>
LongYearLine == <<"150291", " ", "Award">>
ProseLine == <<"Award", " ", "of", " ", "Science">>

SectionBPool ==
  {PositionsSubHeader, HonorsSubHeader, PositionLine, PresentLine, SpacedCommaLine,
   ThreePartLine, RangeOnlyLine, CommaFirstLine, HonorLine, ShortYearLine, LongYearLine, ProseLine}

\* the entry of _parse_section_b
SectionBCall ==
  /\ s_i = 0
  /\ s_out = None
  /\ s_i' = 1
  /\ s_st' = SectionBInit(BiosketchDataDefault)
  /\ UNCHANGED <<s_lines, s_out, cVars, rtVars, gVars, pVars>>

\* one iteration of the loop of _parse_section_b
SectionBLine ==
  /\ s_i >= 1
  /\ s_i <= Len(s_lines)
  /\ s_st' = SectionBStep(s_st, s_lines[s_i])
  /\ s_i' = s_i + 1
  /\ UNCHANGED <<s_lines, s_out, cVars, rtVars, gVars, pVars>>

\* the end of the loop: self.data holds the lists
SectionBReturn ==
  /\ s_i > Len(s_lines)
  /\ s_out = None
  /\ s_out' = Some(WithLists(BiosketchDataDefault, s_st))
  /\ UNCHANGED <<s_lines, s_i, s_st, cVars, rtVars, gVars, pVars>>

InitSectionB ==
  /\ rtIdle
  /\ gIdle
  /\ pIdle
  /\ cIdle
  /\ s_lines \in SeqsUpTo(SectionBPool, MaxSectionLines)
  /\ s_i = 0
  /\ s_st = None
  /\ s_out = None

NextSectionB == SectionBCall \/ SectionBLine \/ SectionBReturn

SpecSectionB == InitSectionB /\ [][NextSectionB]_vars

(***************************************************************************)
(* Positions and honors (section B).                                       *)
(***************************************************************************)
\* the lines of the section that have been read
LinesRead == SubSeq(s_lines, 1, s_i - 1)

\* the mode in force when line i of the section is read: positions until the
\* first Honors sub-header, honors after it
HonorsMode(lines, i) == \E j \in 1..(i - 1) : HonorsHeader(lines[j])

\* <year>-<year> or <year>-Present, whitespace, and a remainder
RangeLine(line) ==
  /\ Len(line) >= 5
  /\ IsDigits(line[1]) /\ TokLen(line[1]) = 4
  /\ line[2] = "-"
  /\ \/ IsDigits(line[3]) /\ TokLen(line[3]) = 4
     \/ Lower(line[3]) = "present"
  /\ IsWs(line[4])
  /\ \E j \in 5..Len(line) : ~IsWs(line[j])

\* s.split(',')
RECURSIVE SplitComma(_)
SplitComma(s) ==
  IF FirstComma(s) = 0 THEN <<s>>
  ELSE <<SubSeq(s, 1, FirstComma(s) - 1)>> \o SplitComma(From(s, FirstComma(s) + 1))

\* ','.join(parts)
RECURSIVE JoinComma(_)
JoinComma(parts) ==
  IF Len(parts) = 1 THEN parts[1]
  ELSE parts[1] \o <<",">> \o JoinComma(Tail(parts))

\* the comma-separated parts of the remainder of a range line
RemainderParts(line) == SplitComma(Strip(From(line, 5)))

\* the parts but the last, rejoined with commas
TitleParts(line) ==
  JoinComma(SubSeq(RemainderParts(line), 1, Len(RemainderParts(line)) - 1))

\* the Position of a range line, its title Trim(the rejoined parts)
PositionOf(line, Trim(_)) ==
  IF Len(RemainderParts(line)) >= 2
  THEN Position(SubSeq(line, 1, 3), Trim(TitleParts(line)),
                Strip(RemainderParts(line)[Len(RemainderParts(line))]))
  ELSE Position(SubSeq(line, 1, 3), Strip(From(line, 5)), << >>)

Untrimmed(s) == s

\* the range lines read in positions mode
RangeLinesRead ==
  {j \in 1..Len(LinesRead) : ~HonorsMode(s_lines, j) /\ RangeLine(s_lines[j])}

\* a range line has just been read in positions mode
RangeLineRead ==
  /\ s_i >= 2
  /\ s_out = None
  /\ ~HonorsMode(s_lines, s_i - 1)
  /\ RangeLine(s_lines[s_i - 1])

\* C12, as amended: a range line read in positions mode yields exactly one
\* Position, the last of the list, with the range as dates; with two or more
\* comma-separated parts in the remainder the institution is the last part,
\* trimmed, and the title the other parts rejoined with commas and trimmed;
\* otherwise the title is the remainder and the institution is empty.
PositionOfRangeLine ==
  RangeLineRead =>
    /\ Len(s_st.positions) = Cardinality(RangeLinesRead)
    /\ s_st.positions[Len(s_st.positions)] = PositionOf(s_lines[s_i - 1], Strip)

PositionOfRangeLineWitness ==
  /\ RangeLineRead
  /\ s_lines[s_i - 1] = SpacedCommaLine
  /\ Len(s_st.positions) = 2

\* C12, as stated: the title is the other parts rejoined with commas, as
\* they are.
PositionTitleRejoined ==
  RangeLineRead =>
    /\ Len(s_st.positions) = Cardinality(RangeLinesRead)
    /\ s_st.positions[Len(s_st.positions)] = PositionOf(s_lines[s_i - 1], Untrimmed)

\* a four-digit year, whitespace, and a remainder
YearLine(line) ==
  /\ Len(line) >= 3
  /\ IsDigits(line[1]) /\ TokLen(line[1]) = 4
  /\ IsWs(line[2])
  /\ \E j \in 3..Len(line) : ~IsWs(line[j])

\* the year lines read in honors mode
YearLinesRead ==
  {j \in 1..Len(LinesRead) : HonorsMode(s_lines, j) /\ YearLine(s_lines[j])}

\* C13: in honors mode a line yields an Honor exactly when it is a four-digit
\* year, whitespace and a remainder: the honors list holds one Honor per such
\* line read and nothing else, and the Honor of such a line has the four
\* digits as year and the non-empty remainder as description.
HonorOfYearLine ==
  (s_i >= 1 /\ s_out = None) =>
    /\ Len(s_st.honors) = Cardinality(YearLinesRead)
    /\ (s_i - 1) \in YearLinesRead =>
         /\ s_st.honors[Len(s_st.honors)]
              = Honor(<<s_lines[s_i - 1][1]>>, Strip(From(s_lines[s_i - 1], 3)))
         /\ s_st.honors[Len(s_st.honors)].description # << >>

HonorOfYearLineWitness ==
  /\ s_out = None
  /\ s_i = 4
  /\ s_lines = <<HonorsSubHeader, ShortYearLine, HonorLine>>
  /\ s_st.honors = <<Honor(<<"2020">>, <<"Award">>)>>

(***************************************************************************)
(* _parse_section_c over the content of a section C of up to               *)
(* MaxSectionLines stripped, non-empty lines.                              *)
(***************************************************************************)
\* two headings of more than 20 characters
HeadingOne == <<"Mechanisms", " ", "of", " ", "Allocation", " ", "Science">>
HeadingTwo == <<"Contributions", " ", "to", " ", "Science", " ", "Award">>
\* a heading after an ordinal
NumberedHeading == <<"1", ".", " ", "Contributions", " ", "to", " ", "Science">>
\* a capitalised line of exactly 20 characters
TwentyLine == <<"Allocation", " ", "Professor">>
\* a capitalised line of more than 20 characters that starts with Role:
RoleHeading == <<"Role", ":", " ", "Professor", " ", "of", " ", "Science">>
\* the boilerplate line
BoilerplateLine == CompleteList \o <<":">>
\* a line of more than 20 characters that starts in lower case
LowerLine == <<"improve", " ", "research", " ", "support">>
\* a citation by its identifier only
PmidLine == <<"Smith", " ", "AB", ".", " ", "PMID", ":", " ", "150291">>

\* the boilerplate text with an identifier after it
BoilerplatePmidLine == CompleteList \o <<" ", "PMID", ":", " ", "150291">>

SectionCPool ==
  {HeadingOne, HeadingTwo, NumberedHeading, TwentyLine, RoleHeading, BoilerplateLine, LowerLine,
   PmidLine, CitationLine, BoilerplatePmidLine}

\* the entry of _parse_section_c
SectionCCall ==
  /\ s_i = 0
  /\ s_out = None
  /\ s_i' = 1
  /\ s_st' = SectionCInit
  /\ UNCHANGED <<s_lines, s_out, cVars, rtVars, gVars, pVars>>

\* one iteration of the loop of _parse_section_c
SectionCLine ==
  /\ s_i >= 1
  /\ s_i <= Len(s_lines)
  /\ s_st' = SectionCStep(s_st, s_lines[s_i])
  /\ s_i' = s_i + 1
  /\ UNCHANGED <<s_lines, s_out, cVars, rtVars, gVars, pVars>>

\* the last contribution and self.data.contributions = contributions
SectionCReturn ==
  /\ s_i > Len(s_lines)
  /\ s_out = None
  /\ s_out' = Some(FlushContribution(s_st))
  /\ UNCHANGED <<s_lines, s_i, s_st, cVars, rtVars, gVars, pVars>>

InitSectionC ==
  /\ rtIdle
  /\ gIdle
  /\ pIdle
  /\ cIdle
  /\ s_lines \in SeqsUpTo(SectionCPool, MaxSectionLines)
  /\ s_i = 0
  /\ s_st = None
  /\ s_out = None

NextSectionC == SectionCCall \/ SectionCLine \/ SectionCReturn

SpecSectionC == InitSectionC /\ [][NextSectionC]_vars

(***************************************************************************)
(* Contributions (section C).                                              *)
(***************************************************************************)
\* a heading line: not a citation, starting with a capital letter, longer
\* than 20 characters
HeadingLine(line) ==
  /\ ~is_citation_line(line)
  /\ StartsUpper(line[1])
  /\ StrLen(line) > MinContributionLen

\* the second heading of a section made of two headings, each followed by
\* citation lines only; 0 if the section is not of that form
SecondHeading(lines) ==
  LET H == {h \in 2..Len(lines) :
              /\ HeadingLine(lines[1])
              /\ HeadingLine(lines[h])
              /\ \A j \in (2..Len(lines)) \ {h} : is_citation_line(lines[j])}
  IN  IF H = {} THEN 0 ELSE CHOOSE h \in H : TRUE

\* the citations of lines a..b
RECURSIVE CitationsOf(_, _, _)
CitationsOf(lines, a, b) ==
  IF a > b THEN << >>
  ELSE <<parse_citation(lines[a])>> \o CitationsOf(lines, a + 1, b)

\* the two contributions of a section whose second heading is line h
TwoContributions(lines, h) ==
  <<Contribution(lines[1], CitationsOf(lines, 2, h - 1)),
    Contribution(lines[h], CitationsOf(lines, h + 1, Len(lines)))>>

\* no line holds the boilerplate text and the second heading does not start
\* with Role:
PlainHeadings(lines, h) ==
  /\ \A j \in 1..Len(lines) : ~HasCompleteList(lines[j])
  /\ ~StartsWith(lines[h], <<"Role", ":">>)

\* C14, as amended: a section C of two heading lines, each followed by
\* citation lines only, where no line holds the text 'Complete List of
\* Published Work' and the second heading does not start with 'Role:',
\* gives exactly two Contributions in order, each with its own heading as
\* narrative and the citations that follow it.
TwoHeadingsTwoContributions ==
  (s_out # None /\ SecondHeading(s_lines) # 0
     /\ PlainHeadings(s_lines, SecondHeading(s_lines)))
    => s_out[1] = TwoContributions(s_lines, SecondHeading(s_lines))

TwoHeadingsTwoContributionsWitness ==
  /\ s_out # None
  /\ s_lines = <<HeadingOne, CitationLine, HeadingTwo>>
  /\ SecondHeading(s_lines) = 3
  /\ Len(s_out[1]) = 2
  /\ Len(s_out[1][1].citations) = 1

\* C14, as stated: every section C of two heading lines, each followed by
\* citation lines only, gives exactly those two Contributions.
AnyTwoHeadingsTwoContributions ==
  (s_out # None /\ SecondHeading(s_lines) # 0)
    => s_out[1] = TwoContributions(s_lines, SecondHeading(s_lines))

(***************************************************************************)
(* CitationParser.is_citation_line and CitationParser.parse_citation on a  *)
(* text written from five parts: a list marker, a body, and a PMID, a      *)
(* PMCID and a DOI part, each of which may be missing.                     *)
(***************************************************************************)
MarkerParts ==
  {<< >>, <<" ">>, <<"1", ".", " ">>, <<"a", ".", " ">>, <<"A", ".", " ">>}

AuthorsComma == <<"Smith", " ", "AB", ",", " ", "Mechanisms", " ", "of", " ", "Science">>
AuthorsPeriod == <<"Smith", " ", "AB", ".", " ", "Mechanisms", " ", "of", " ", "Science">>
AuthorsThree == <<"Smith", " ", "NIH", ",", " ", "Mechanisms">>
Prose == <<"Various", " ", "research", " ", "to", " ", "improve", " ", "support">>

BodyParts == {<< >>, AuthorsComma, AuthorsPeriod, AuthorsThree, Prose}

PmidPart == <<" ", "PMID", ":", " ", "150291">>
\* the token without a number after it
PmidPending == <<" ", "PMID", ":">>
PmidParts == {<< >>, PmidPart, PmidPending}

PmcidPart == <<" ", "PMCID", ":", " ", "PMC", "150291">>
PmcidParts == {<< >>, PmcidPart}

DoiPart == <<" ", "doi", ":", "10", ".", "1502", "/", "A", ".", "2020">>
DoiUrlPart == <<" ", "https", ":", "/", "/", "doi", ".", "org", "/", "10", ".", "150291", "/", "B">>
\* a registrant code of fewer than four digits
DoiShort == <<" ", "doi", ":", " ", "10", ".", "20", "/", "A">>
DoiParts == {<< >>, DoiPart, DoiUrlPart, DoiShort}

CitationParts == MarkerParts \X BodyParts \X PmidParts \X PmcidParts \X DoiParts

TextOf(parts) == parts[1] \o parts[2] \o parts[3] \o parts[4] \o parts[5]

\* CitationParser.is_citation_line(text)
IsCitationLineCall ==
  /\ c_out # None
  /\ c_out.is = None
  /\ c_out' = [c_out EXCEPT !.is = Some(is_citation_line(c_text))]
  /\ UNCHANGED <<c_parts, c_text, sVars, rtVars, gVars, pVars>>

\* CitationParser.parse_citation(text)
ParseCitationCall ==
  /\ c_out # None
  /\ c_out.cit = None
  /\ c_out' = [c_out EXCEPT !.cit = Some(parse_citation(c_text))]
  /\ UNCHANGED <<c_parts, c_text, sVars, rtVars, gVars, pVars>>

InitCitation ==
  /\ rtIdle
  /\ gIdle
  /\ pIdle
  /\ sIdle
  /\ c_parts \in CitationParts
  /\ c_text = TextOf(c_parts)
  /\ c_out = [is |-> None, cit |-> None]

NextCitation == IsCitationLineCall \/ ParseCitationCall

SpecCitation == InitCitation /\ [][NextCitation]_vars

(***************************************************************************)
(* Citations.                                                              *)
(***************************************************************************)
\* the text holds an identifier token: PMID:, PMCID:, doi: or a DOI URL
HasIdentifierToken(text) ==
  \E i \in 1..Len(text) :
    \/ LitAt(text, i, <<"pmid", ":">>)
    \/ LitAt(text, i, <<"pmcid", ":">>)
    \/ LitAt(text, i, <<"doi", ":">>)
    \/ LitAt(text, i, <<"https", ":", "/", "/", "doi", ".", "org", "/">>)

\* the text is a numbered or lettered list item ("1. ", "a. "): the index
\* its remaining text starts at, 0 if it is not
ListItemRest(text) ==
  IF /\ Len(text) >= 2
     /\ text[2] = "."
     /\ \/ IsDigits(text[1])
        \/ Kind(text[1]) = "low" /\ TokLen(text[1]) = 1
  THEN SkipWs(text, 3) ELSE 0

\* text[i..] begins with a capitalised surname followed by one or two
\* capital initials
AuthorNameAt(text, i) ==
  /\ i + 2 <= Len(text)
  /\ Kind(text[i]) = "cap"
  /\ IsWs(text[i + 1])
  /\ SkipWs(text, i + 1) <= Len(text)
  /\ Kind(text[SkipWs(text, i + 1)]) = "up"
  /\ TokLen(text[SkipWs(text, i + 1)]) <= 2

\* a citation according to the two-tier test
TwoTierCitation(text) ==
  \/ HasIdentifierToken(text)
  \/ ListItemRest(Strip(text)) # 0 /\ AuthorNameAt(Strip(text), ListItemRest(Strip(text)))

\* C15: is_citation_line(line) is true exactly when the line holds an
\* identifier token (PMID:, PMCID:, doi: or a DOI URL) or is a numbered or
\* lettered list item whose remaining text begins with a capitalised surname
\* followed by one or two capital initials; in particular an empty or
\* whitespace-only line is not a citation.
CitationClassification ==
  (c_out # None /\ c_out.is # None) =>
    /\ c_out.is[1] = TwoTierCitation(c_text)
    /\ Strip(c_text) = << >> => c_out.is[1] = FALSE

\* the identifier each part of a text is written with, None for a part that
\* is missing or holds no identifier after its token
PmidOfPart(part) == IF part = PmidPart THEN Some(<<"150291">>) ELSE None

PmcidOfPart(part) == IF part = PmcidPart THEN Some(<<"PMC", "150291">>) ELSE None

DoiOfPart(part) ==
  IF part = DoiPart THEN Some(<<"10", ".", "1502", "/", "A", ".", "2020">>)
  ELSE IF part = DoiUrlPart THEN Some(<<"10", ".", "150291", "/", "B">>)
  ELSE None

\* C16: parse_citation returns, for any text, a Citation with the stripped
\* text, and with pmid, pmcid and doi each the identifier written after its
\* own token in the text, None when the text has no such token; each field
\* depends on its own part of the text only, not on the other identifiers,
\* the list marker or the body, nor on how the text is classified.
IdentifierExtraction ==
  (c_out # None /\ c_out.cit # None) =>
    /\ c_out.cit[1].cls = "Citation"
    /\ c_out.cit[1].text = Strip(c_text)
    /\ c_out.cit[1].pmid = PmidOfPart(c_parts[3])
    /\ c_out.cit[1].pmcid = PmcidOfPart(c_parts[4])
    /\ c_out.cit[1].doi = DoiOfPart(c_parts[5])

IdentifierExtractionWitness ==
  /\ c_out # None
  /\ c_out.cit # None
  /\ c_parts = <<<<"1", ".", " ">>, Prose, PmidPart, PmcidPart, DoiUrlPart>>
  /\ c_out.cit[1].pmid = Some(<<"150291">>)
  /\ c_out.cit[1].pmcid = Some(<<"PMC", "150291">>)
  /\ c_out.cit[1].doi = Some(<<"10", ".", "150291", "/", "B">>)

\* the citation lists of the contributions, one after the other
RECURSIVE AllCitations(_)
AllCitations(contributions) ==
  IF contributions = << >> THEN << >>
  ELSE Head(contributions).citations \o AllCitations(Tail(contributions))

\* the Citations of the lines of a section that are classified as citations,
\* in order; the boilerplate line is skipped before it is classified
RECURSIVE CitationLinesOf(_)
CitationLinesOf(lines) ==
  IF lines = << >> THEN << >>
  ELSE (IF ~HasCompleteList(Head(lines)) /\ is_citation_line(Head(lines))
        THEN <<parse_citation(Head(lines))>> ELSE << >>)
       \o CitationLinesOf(Tail(lines))

\* C17: every line of section C classified as a citation is in the citation
\* list of exactly one Contribution returned, in order: the in-progress
\* contribution is emitted with its buffered citations on a new-contribution
\* line and at the end of the input also when only its citation buffer is
\* not empty.
CitationsNeverLost ==
  s_out # None => AllCitations(s_out[1]) = CitationLinesOf(s_lines)

(***************************************************************************)
(* _parse_section_a over the content of a section A of up to               *)
(* MaxSectionLines stripped, non-empty lines.                              *)
(***************************************************************************)
ResearchSubHeader == <<"Current", " ", "research", " ", "support">>
CitationsSubHeader == <<"Citations", ":">>
FunderLine == <<"NIH", " ", "150291">>
RoleLine == <<"Role", ":", " ", "PI">>

SectionAPool ==
  {ResearchSubHeader, CitationsSubHeader, ProseLine, LowerLine, FunderLine, RoleLine,
   PmidLine}

\* the entry of _parse_section_a
SectionACall ==
  /\ s_i = 0
  /\ s_out = None
  /\ s_i' = 1
  /\ s_st' = SectionAInit
  /\ UNCHANGED <<s_lines, s_out, cVars, rtVars, gVars, pVars>>

\* one iteration of the loop of _parse_section_a
SectionALine ==
  /\ s_i >= 1
  /\ s_i <= Len(s_lines)
  /\ s_st' = SectionAStep(s_st, s_lines[s_i])
  /\ s_i' = s_i + 1
  /\ UNCHANGED <<s_lines, s_out, cVars, rtVars, gVars, pVars>>

\* the grants are parsed and self.data.personal_statement is assigned
SectionAReturn ==
  /\ s_i > Len(s_lines)
  /\ s_out = None
  /\ s_out' = Some(StatementOf(s_st))
  /\ UNCHANGED <<s_lines, s_i, s_st, cVars, rtVars, gVars, pVars>>

InitSectionA ==
  /\ rtIdle
  /\ gIdle
  /\ pIdle
  /\ cIdle
  /\ s_lines \in SeqsUpTo(SectionAPool, MaxSectionLines)
  /\ s_i = 0
  /\ s_st = None
  /\ s_out = None

NextSectionA == SectionACall \/ SectionALine \/ SectionAReturn

SpecSectionA == InitSectionA /\ [][NextSectionA]_vars

(***************************************************************************)
(* Personal statement (section A).                                         *)
(***************************************************************************)
\* the mode a sub-header line enters, None for any other line
SubHeaderMode(line) ==
  IF ResearchSupportHeader(line) THEN Some("grants")
  ELSE IF CitationsHeader(line) THEN Some("citations")
  ELSE None

\* the mode in force when line i of the section is read: that of the last
\* sub-header before it, narrative if there is none
ModeAt(lines, i) ==
  LET H == {j \in 1..(i - 1) : SubHeaderMode(lines[j]) # None}
  IN  IF H = {} THEN "narrative"
      ELSE SubHeaderMode(lines[CHOOSE j \in H : \A k \in H : k <= j])[1]

\* the lines among the first n that are no sub-header and are read in mode m,
\* in order
RECURSIVE LinesInMode(_, _, _)
LinesInMode(lines, n, m) ==
  IF n = 0 THEN << >>
  ELSE LinesInMode(lines, n - 1, m)
       \o (IF SubHeaderMode(lines[n]) = None /\ ModeAt(lines, n) = m
           THEN <<lines[n]>> ELSE << >>)

\* one Citation per line
RECURSIVE CitationsOfLines(_)
CitationsOfLines(lines) ==
  IF lines = << >> THEN << >>
  ELSE <<parse_citation(Head(lines))>> \o CitationsOfLines(Tail(lines))

\* C18: every line of section A that is not a sub-header is in exactly one
\* of the statement text (read in narrative mode), the grant buffer (grants
\* mode) and the citations list (citations mode, one Citation per line,
\* whatever the line looks like), in order; the sub-header lines are in
\* none; the text of the statement is the narrative lines joined with
\* single spaces.
StatementPartition ==
  /\ (s_i >= 1 /\ s_out = None) =>
       /\ s_st.personal_text = LinesInMode(s_lines, s_i - 1, "narrative")
       /\ s_st.grant_lines = LinesInMode(s_lines, s_i - 1, "grants")
       /\ s_st.citations
            = CitationsOfLines(LinesInMode(s_lines, s_i - 1, "citations"))
       /\ Len(s_st.personal_text) + Len(s_st.grant_lines) + Len(s_st.citations)
            = Cardinality({j \in 1..(s_i - 1) : SubHeaderMode(s_lines[j]) = None})
  /\ s_out # None =>
       /\ s_out[1].text = JoinSp(LinesInMode(s_lines, Len(s_lines), "narrative"))
       /\ s_out[1].citations
            = CitationsOfLines(LinesInMode(s_lines, Len(s_lines), "citations"))

StatementPartitionWitness ==
  /\ s_out # None
  /\ s_lines = <<ProseLine, CitationsSubHeader, ProseLine>>
  /\ s_out[1].text = ProseLine
  /\ Len(s_out[1].citations) = 1
  /\ s_out[1].citations[1].pmid = None

\* the mode of the loop of _parse_section_a
ModeOf(st) ==
  IF st.in_citations THEN "citations"
  ELSE IF st.in_research_support THEN "grants"
  ELSE "narrative"

\* a line of the section is being read
ReadsLine == s_i >= 1 /\ s_i <= Len(s_lines) /\ s_i' = s_i + 1

\* C19: the mode changes only on a sub-header line; a research support
\* sub-header enters grants mode and a Citations sub-header citations mode,
\* from any mode; narrative mode is not entered again and no line after the
\* first sub-header is added to the statement text; the grant lines of all
\* the stretches in grants mode, in order, are parsed once, after the
\* section has been walked.
ModeTransitions ==
  /\ [][ReadsLine =>
          /\ SubHeaderMode(s_lines[s_i]) = None => ModeOf(s_st') = ModeOf(s_st)
          /\ SubHeaderMode(s_lines[s_i]) # None
               => ModeOf(s_st') = SubHeaderMode(s_lines[s_i])[1]
          /\ ModeOf(s_st) # "narrative"
               => /\ ModeOf(s_st') # "narrative"
                  /\ s_st'.personal_text = s_st.personal_text]_vars
  /\ [](s_out # None
          => s_out[1].grants
               = _parse_grants(LinesInMode(s_lines, Len(s_lines), "grants")))

ModeTransitionsWitness ==
  /\ s_out = None
  /\ s_i = 4
  /\ s_lines = <<CitationsSubHeader, PmidLine, ResearchSubHeader>>
  /\ ModeOf(s_st) = "grants"

(***************************************************************************)
(* The grant state machine.                                                *)
(***************************************************************************)
\* the line begins with a token of the recognised funder set
FunderTokenLine(raw) ==
  Strip(raw) # << >> /\ Lower(Strip(raw)[1]) \in FunderLits

FunderLineIdx(lines) == {i \in 1..Len(lines) : FunderTokenLine(lines[i])}

\* the k-th line of the block that begins with a funder token
NthFunderLine(lines, k) ==
  CHOOSE i \in FunderLineIdx(lines) :
    Cardinality({j \in FunderLineIdx(lines) : j <= i}) = k

\* the index after the lines that belong to the grant of funder line i
NextFunderLine(lines, i) ==
  LET later == {j \in FunderLineIdx(lines) : j > i}
  IN  IF later = {} THEN Len(lines) + 1
      ELSE CHOOSE j \in later : \A m \in later : j <= m

\* the lines a..b that are neither blank nor a Role: line, stripped, in order
RECURSIVE TitleLines(_, _, _)
TitleLines(lines, a, b) ==
  IF a > b THEN << >>
  ELSE (IF Strip(lines[a]) # << >> /\ RoleMatch(Strip(lines[a])) = None
        THEN <<Strip(lines[a])>> ELSE << >>)
       \o TitleLines(lines, a + 1, b)

\* the Role: lines among lines a..b
RoleLineIdx(lines, a, b) == {j \in a..b : RoleMatch(Strip(lines[j])) # None}

\* the role the last Role: line of a non-empty set R of lines gives
LastRole(lines, R) ==
  Strip(RoleMatch(Strip(lines[CHOOSE j \in R : \A m \in R : m <= j]))[1])

\* C20: the grants returned for a block correspond one to one, in order, to
\* the lines that begin with a token of the recognised funder set, the last
\* one included; the role of a grant is that of the last Role: line after
\* its funder line, if there is one; its title is the other non-blank lines
\* after its funder line, joined with single spaces.
GrantStateMachine ==
  g_out # None =>
    /\ Len(g_out[1]) = Cardinality(FunderLineIdx(g_lines))
    /\ \A k \in 1..Cardinality(FunderLineIdx(g_lines)) :
         LET i == NthFunderLine(g_lines, k)
             n == NextFunderLine(g_lines, i)
         IN  /\ g_out[1][k].title = JoinSp(TitleLines(g_lines, i + 1, n - 1))
             /\ RoleLineIdx(g_lines, i + 1, n - 1) # {}
                  => g_out[1][k].role
                       = LastRole(g_lines, RoleLineIdx(g_lines, i + 1, n - 1))

(***************************************************************************)
(* Lines before the first grant of a block.                                *)
(***************************************************************************)
\* no line before the one being read begins with a funder token
BeforeFirstFunderLine ==
  g_i >= 1 /\ \A j \in 1..(g_i - 1) : ~FunderTokenLine(g_lines[j])

\* C21: as long as no line that begins with a funder token has been read,
\* the loop of _parse_grants is in its initial state, no grant saved and no
\* grant in progress: a Role: line, or any other line, before the first
\* funder line creates no grant and leaves nothing behind that could reach
\* the grants started later.
LeadingLinesIgnored ==
  BeforeFirstFunderLine => g_st = GrantInit

(***************************************************************************)
(* The dates of a line handled by _parse_grant_line.                       *)
(***************************************************************************)
\* the digit runs of the line a date range starts in
DateRangeStarts(s) == {i \in 1..Len(s) : DateFrom(s, i).ok}

\* the text of the date range that starts in the run s[i]: month/year, dash,
\* month/year
DateRangeAt(s, i) ==
  Strip(<<IF TokLen(s[i]) > 2 THEN Tail2[s[i]][2] ELSE s[i]>>
        \o SubSeq(s, i + 1, i + 2) \o DateFrom(s, i).text)

\* the last date range of a line that holds one
LastDateRange(s) ==
  DateRangeAt(s, CHOOSE i \in DateRangeStarts(s) :
                   \A j \in DateRangeStarts(s) : j <= i)

\* C22: after the loop has read a line that starts with a funder token, fails
\* the header pattern and holds one or more date ranges, the dates of the
\* grant in progress are the last date range of the line.
FallbackDatesAreLast ==
  (/\ g_i >= 2
   /\ FallbackLine(g_lines[g_i - 1])
   /\ DateRangeStarts(Strip(g_lines[g_i - 1])) # {})
    => /\ g_st.current_grant # None
       /\ g_st.current_grant[1].dates = LastDateRange(Strip(g_lines[g_i - 1]))

(***************************************************************************)
(* The mode of section B.                                                  *)
(***************************************************************************)
\* the mode of the loop of _parse_section_b
ModeOfB(st) ==
  IF st.in_honors THEN "honors"
  ELSE IF st.in_positions THEN "positions"
  ELSE "none"

\* C23: the loop of section B starts in positions mode; an Honors sub-header
\* enters honors mode and no line leaves it, a Positions sub-header
\* included; a line read in honors mode adds no Position, a line read in
\* positions mode adds no Honor, and a sub-header line adds no record.  So
\* the positions come from the lines before the first Honors sub-header and
\* the honors from the lines after it.
OneWayMode ==
  /\ [][ReadsLine =>
          /\ HonorsHeader(s_lines[s_i]) => ModeOfB(s_st') = "honors"
          /\ ~HonorsHeader(s_lines[s_i]) => ModeOfB(s_st') = ModeOfB(s_st)
          /\ ModeOfB(s_st) = "honors" => s_st'.positions = s_st.positions
          /\ ModeOfB(s_st) = "positions" => s_st'.honors = s_st.honors
          /\ (HonorsHeader(s_lines[s_i]) \/ PositionsHeader(s_lines[s_i]))
               => /\ s_st'.positions = s_st.positions
                  /\ s_st'.honors = s_st.honors]_vars
  /\ []((s_i >= 1 /\ s_out = None) =>
          /\ ModeOfB(s_st)
               = IF HonorsMode(s_lines, s_i) THEN "honors" ELSE "positions"
          /\ Len(s_st.positions) = Cardinality(RangeLinesRead)
          /\ Len(s_st.honors) = Cardinality(YearLinesRead))

OneWayModeWitness ==
  /\ s_out = None
  /\ s_i = 4
  /\ s_lines = <<HonorsSubHeader, PositionsSubHeader, PositionLine>>
  /\ ModeOfB(s_st) = "honors"
  /\ s_st.positions = << >>

(***************************************************************************)
(* The dates and the title of a Position.                                  *)
(***************************************************************************)
\* the positions of self.data, during the loop and after it
PositionsSoFar == IF s_out # None THEN s_out[1].positions ELSE s_st.positions

\* the k-th range line read in positions mode
NthRangeLineRead(k) ==
  CHOOSE j \in RangeLinesRead : Cardinality({m \in RangeLinesRead : m <= j}) = k

\* the remainder of a range line has a comma and nothing but whitespace
\* before its last comma
BlankBeforeLastComma(line) ==
  /\ Len(RemainderParts(line)) >= 2
  /\ \A k \in 1..Len(TitleParts(line)) : IsWs(TitleParts(line)[k])

\* C24, as amended: every Position has a non-empty dates string, and its
\* title is empty exactly when the remainder of its line has nothing but
\* whitespace before its last comma; the title of every other Position is
\* not empty.
PositionsDatedAndTitled ==
  s_i >= 1 =>
    /\ Len(PositionsSoFar) = Cardinality(RangeLinesRead)
    /\ \A k \in 1..Len(PositionsSoFar) :
         /\ PositionsSoFar[k].dates # << >>
         /\ PositionsSoFar[k].title = << >>
              <=> BlankBeforeLastComma(s_lines[NthRangeLineRead(k)])

PositionsDatedAndTitledWitness ==
  /\ s_out # None
  /\ s_lines = <<PositionLine, CommaFirstLine>>
  /\ Len(s_out[1].positions) = 2
  /\ s_out[1].positions[1].title # << >>
  /\ s_out[1].positions[2] = Position(<<"2020", "-", "2025">>, << >>, <<"Chicago">>)

\* C24, as stated: every Position has a non-empty dates string and a
\* non-empty title.
EveryPositionTitled ==
  s_i >= 1 =>
    \A k \in 1..Len(PositionsSoFar) :
      /\ PositionsSoFar[k].dates # << >>
      /\ PositionsSoFar[k].title # << >>

(***************************************************************************)
(* The order of the classifications of section C.                          *)
(***************************************************************************)
\* the line being read is classified, and classified as a citation
ReadsCitationLine ==
  /\ ReadsLine
  /\ ~HasCompleteList(s_lines[s_i])
  /\ is_citation_line(s_lines[s_i])

\* C25: a line of section C that is classified as a citation is parsed and
\* appended to the current citation buffer whatever the buffers hold, also
\* when it has the shape of a new heading; it flushes no contribution and
\* the narrative buffer is left as it is.
CitationBeforeBoundary ==
  [][ReadsCitationLine =>
       /\ s_st'.current_citations
            = Append(s_st.current_citations, parse_citation(s_lines[s_i]))
       /\ s_st'.current_narrative = s_st.current_narrative
       /\ s_st'.contributions = s_st.contributions]_vars

\* a citation with the shape of a heading has been read with a narrative in
\* progress
CitationBeforeBoundaryWitness ==
  /\ s_out = None
  /\ s_i = 3
  /\ s_lines = <<HeadingOne, PmidLine>>
  /\ NewContributionIgnoringCitation(PmidLine)
  /\ s_st.contributions = << >>
  /\ s_st.current_narrative = <<HeadingOne>>
  /\ Len(s_st.current_citations) = 1
  /\ s_st.current_citations[1].pmid = Some(<<"150291">>)

(***************************************************************************)
(* CitationParser.parse_citation_block and split_citations on a text of up *)
(* to MaxTextLines lines joined with newlines.                             *)
(***************************************************************************)
EmptyRaw == << >>
SpaceRaw == <<" ">>
NumberedRaw == <<"1", ".", " ", "Smith", " ", "AB">>
\* a lettered marker after leading whitespace
LetteredRaw == <<" ", "a", ".", " ", "Parker", " ">>
ContinuationRaw == <<"Mechanisms", " ", "of", " ", "Science">>
\* an upper-case letter and a period
UpperLetterRaw == <<"A", ".", " ", "Fellow">>
\* a number and a period with no whitespace after them
TightRaw == <<"1", ".", "Smith">>
BareNumberRaw == <<"1", ".", " ">>

TextLinePool ==
  {EmptyRaw, SpaceRaw, NumberedRaw, LetteredRaw, ContinuationRaw, UpperLetterRaw,
   TightRaw, BareNumberRaw}

\* '\n'.join(parts)
RECURSIVE JoinNl(_)
JoinNl(parts) ==
  IF parts = << >> THEN << >>
  ELSE IF Len(parts) = 1 THEN parts[1]
  ELSE parts[1] \o <<"\n">> \o JoinNl(Tail(parts))

\* the entry of parse_citation_block and of split_citations (lines 86-88)
SplitCall ==
  /\ s_i = 0
  /\ s_out = None
  /\ s_lines' = SplitNl(Strip(c_text))
  /\ s_i' = 1
  /\ s_st' = SplitInit
  /\ UNCHANGED <<s_out, cVars, rtVars, gVars, pVars>>

\* one iteration of the loop of split_citations
SplitLine ==
  /\ s_i >= 1
  /\ s_i <= Len(s_lines)
  /\ s_st' = SplitStep(s_st, s_lines[s_i])
  /\ s_i' = s_i + 1
  /\ UNCHANGED <<s_lines, s_out, cVars, rtVars, gVars, pVars>>

\* the last citation and return citations (lines 108-111)
SplitReturn ==
  /\ s_i > Len(s_lines)
  /\ s_out = None
  /\ s_out' = Some(FlushCitation(s_st))
  /\ UNCHANGED <<s_lines, s_i, s_st, cVars, rtVars, gVars, pVars>>

\* the list parse_citation_block returns (line 117)
BlockReturn ==
  /\ s_out # None
  /\ c_out = None
  /\ c_out' = Some(CitationsOfTexts(s_out[1]))
  /\ UNCHANGED <<c_parts, c_text, sVars, rtVars, gVars, pVars>>

InitSplit ==
  /\ rtIdle
  /\ gIdle
  /\ pIdle
  /\ sIdle
  /\ c_parts \in SeqsUpTo(TextLinePool, MaxTextLines)
  /\ c_text = JoinNl(c_parts)
  /\ c_out = None

NextSplit == SplitCall \/ SplitLine \/ SplitReturn \/ BlockReturn

SpecSplit == InitSplit /\ [][NextSplit]_vars

(***************************************************************************)
(* The citations of a block of text.                                       *)
(***************************************************************************)
\* line i of the text is not blank
NonBlankPart(parts, i) == \E k \in 1..Len(parts[i]) : ~IsWs(parts[i][k])

\* the line starts with a numbered or lettered marker ("1. ", "a. ")
StartsWithMarker(raw) == ListItemRest(Strip(raw)) > 3

\* line i begins a citation: it is the first line, or follows a blank line,
\* or starts with a marker
GroupStart(parts, i) ==
  /\ NonBlankPart(parts, i)
  /\ i = 1 \/ ~NonBlankPart(parts, i - 1) \/ StartsWithMarker(parts[i])

\* the last line of the citation that line i begins
GroupLast(parts, i) ==
  LET J == {j \in i..Len(parts) :
              /\ \A m \in i..j : NonBlankPart(parts, m)
              /\ \A m \in (i + 1)..j : ~StartsWithMarker(parts[m])}
  IN  CHOOSE j \in J : \A m \in J : m <= j

\* lines a..b, each one trimmed
RECURSIVE TrimmedLines(_, _, _)
TrimmedLines(parts, a, b) ==
  IF a > b THEN << >> ELSE <<Strip(parts[a])>> \o TrimmedLines(parts, a + 1, b)

\* the citations that begin at line i or later, in order
RECURSIVE GroupsFrom(_, _)
GroupsFrom(parts, i) ==
  IF i > Len(parts) THEN << >>
  ELSE (IF GroupStart(parts, i)
        THEN <<JoinSp(TrimmedLines(parts, i, GroupLast(parts, i)))>> ELSE << >>)
       \o GroupsFrom(parts, i + 1)

\* the non-blank lines among lines i.., trimmed, in order
RECURSIVE NonBlankFrom(_, _)
NonBlankFrom(parts, i) ==
  IF i > Len(parts) THEN << >>
  ELSE (IF NonBlankPart(parts, i) THEN <<Strip(parts[i])>> ELSE << >>)
       \o NonBlankFrom(parts, i + 1)

\* C26: split_citations returns one citation per group of the text, in
\* order, a group being a run of consecutive non-blank lines that begins at
\* the first line, after a blank line or at a line starting with a numbered
\* or lettered marker, and ends before the next such line, before a blank
\* line or at the end of the text; a citation is the lines of its group,
\* trimmed and joined with single spaces, and is never empty; all the
\* citations joined are all the non-blank lines joined, so no line is lost,
\* repeated or moved; parse_citation_block returns one Citation per group.
SplitGroups ==
  /\ s_out # None =>
       /\ s_out[1] = GroupsFrom(c_parts, 1)
       /\ \A k \in 1..Len(s_out[1]) : s_out[1][k] # << >>
       /\ JoinSp(s_out[1]) = JoinSp(NonBlankFrom(c_parts, 1))
  /\ c_out # None =>
       /\ Len(c_out[1]) = Len(s_out[1])
       /\ \A k \in 1..Len(c_out[1]) : c_out[1][k].text = s_out[1][k]

SplitGroupsWitness ==
  /\ c_out # None
  /\ c_parts = <<NumberedRaw, ContinuationRaw, SpaceRaw, LetteredRaw>>
  /\ s_out[1] = <<NumberedRaw \o <<" ">> \o ContinuationRaw,
                  <<"a", ".", " ", "Parker">>>>
  /\ Len(c_out[1]) = 2

(***************************************************************************)
(* The narratives of section C.                                            *)
(***************************************************************************)
\* the narratives of the contributions, in order
RECURSIVE NarrativesOf(_)
NarrativesOf(contributions) ==
  IF contributions = << >> THEN << >>
  ELSE <<Head(contributions).narrative>> \o NarrativesOf(Tail(contributions))

\* the lines of a section that are neither classified as citations nor hold
\* the boilerplate text, in order
RECURSIVE NarrativeLinesOf(_)
NarrativeLinesOf(lines) ==
  IF lines = << >> THEN << >>
  ELSE (IF ~HasCompleteList(Head(lines)) /\ ~is_citation_line(Head(lines))
        THEN <<Head(lines)>> ELSE << >>)
       \o NarrativeLinesOf(Tail(lines))

\* C27: every Contribution returned has a non-empty narrative; the
\* narratives of the Contributions returned, joined with single spaces in
\* order, are the lines of the section that are neither classified as
\* citations nor hold the boilerplate text, joined with single spaces in
\* order; the boilerplate text is in no narrative and in no citation.
NarrativeConservation ==
  s_out # None =>
    /\ \A k \in 1..Len(s_out[1]) : s_out[1][k].narrative # << >>
    /\ JoinSp(NarrativesOf(s_out[1])) = JoinSp(NarrativeLinesOf(s_lines))
    /\ \A k \in 1..Len(s_out[1]) :
         /\ ~HasCompleteList(s_out[1][k].narrative)
         /\ \A c \in 1..Len(s_out[1][k].citations) :
              ~HasCompleteList(s_out[1][k].citations[c].text)

NarrativeConservationWitness ==
  /\ s_out # None
  /\ s_lines = <<HeadingOne, BoilerplatePmidLine, HeadingTwo>>
  /\ NarrativesOf(s_out[1]) = <<HeadingOne, HeadingTwo>>
  /\ s_out[1][1].citations = << >>

(***************************************************************************)
(* A section header that occurs more than once.                            *)
(***************************************************************************)
\* the contents of the occurrences of section sec, in document order
ContentsOf(paras, sec) ==
  LET OfSection(c) == c.section = sec
      C == SelectSeq(ExpectedCalls(paras), OfSection)
  IN  [k \in 1..Len(C) |-> C[k].content]

\* the positions and the honors of each content parsed on its own, one
\* content after the other
RECURSIVE PositionsOfAll(_)
PositionsOfAll(contents) ==
  IF contents = << >> THEN << >>
  ELSE _parse_section_b(BiosketchDataDefault, Head(contents)).positions
       \o PositionsOfAll(Tail(contents))

RECURSIVE HonorsOfAll(_)
HonorsOfAll(contents) ==
  IF contents = << >> THEN << >>
  ELSE _parse_section_b(BiosketchDataDefault, Head(contents)).honors
       \o HonorsOfAll(Tail(contents))

\* the record v agrees with the occurrences a, b and c of the sections A, B
\* and C: the last of a and of c, all of b
LastAndAll(v, a, b, c) ==
  /\ v.personal_statement
       = IF a = << >> THEN None ELSE Some(_parse_section_a(a[Len(a)]))
  /\ v.contributions = IF c = << >> THEN << >> ELSE _parse_section_c(c[Len(c)])
  /\ v.positions = PositionsOfAll(b)
  /\ v.honors = HonorsOfAll(b)

HeaderAIdx(paras) == {i \in 1..Len(paras) : SECTION_A_PATTERN(Strip(paras[i]))}

\* the last paragraph that matches the section A header
LastHeaderA(paras) ==
  CHOOSE i \in HeaderAIdx(paras) : \A k \in HeaderAIdx(paras) : k <= i

\* the statement of record v agrees with the section A headers of paras
StatementPresence(v, paras) ==
  /\ v.personal_statement # None <=> HeaderAIdx(paras) # {}
  /\ (/\ HeaderAIdx(paras) # {}
      /\ ContentBetween(paras, LastHeaderA(paras),
                        NextHeader(paras, LastHeaderA(paras))) = << >>)
       => v.personal_statement = Some(PersonalStatement(<< >>, << >>, << >>))

\* C29: in the record the first call of parse() returns, personal_statement
\* is not None exactly when a paragraph of the document matches the section A
\* header; when the header is followed by no content line the statement has
\* an empty text, no grants and no citations.
StatementIffHeaderA ==
  \A p \in Parsers :
    returned[p] # << >> => StatementPresence(seen[p][1], Doc(p).paragraphs)

StatementIffHeaderAWitness ==
  /\ Len(returned[1]) = 1
  /\ Doc(1).paragraphs = <<PositionLine, HeaderA, BlankLine, HeaderB>>
  /\ seen[1][1].personal_statement = Some(PersonalStatement(<< >>, << >>, << >>))

(***************************************************************************)
(* Lines that carry an identifier.                                         *)
(***************************************************************************)
\* parse_citation finds a PMID, a PMCID or a DOI in the line
CarriesIdentifier(line) ==
  \/ parse_citation(line).pmid # None
  \/ parse_citation(line).pmcid # None
  \/ parse_citation(line).doi # None

\* sub occurs in s
Occurs(sub, s) ==
  \E k \in 0..(Len(s) - Len(sub)) : SubSeq(s, k + 1, k + Len(sub)) = sub

\* the line is in the citation list of a contribution, as its Citation
StoredAsCitation(contributions, line) ==
  \E k \in 1..Len(AllCitations(contributions)) :
    AllCitations(contributions)[k] = parse_citation(line)

\* C30: a line in which parse_citation finds a PMID, a PMCID or a DOI is
\* classified as a citation by is_citation_line; so every such line of
\* section C, the skipped boilerplate line apart, is in the citation list of
\* a Contribution returned, as its Citation, and in no narrative.
IdentifierLinesStored ==
  /\ \A j \in 1..Len(s_lines) :
       CarriesIdentifier(s_lines[j]) => is_citation_line(s_lines[j])
  /\ s_out # None =>
       \A j \in 1..Len(s_lines) :
         (CarriesIdentifier(s_lines[j]) /\ ~HasCompleteList(s_lines[j]))
           => /\ StoredAsCitation(s_out[1], s_lines[j])
              /\ \A k \in 1..Len(s_out[1]) :
                   ~Occurs(s_lines[j], s_out[1][k].narrative)

====
